---- MODULE Spec2Model ----
(***************************************************************************)
(* Model of the gMCP TypeScript client: the reflection-based descriptor    *)
(* cache (DescriptorCache.getTypesRoot / fetchFileDescriptors / fetchBatch)*)
(* and the input validator (RealMcpClient.validateInputs /                 *)
(* applyPgvIndexRules).                                                    *)
(*                                                                         *)
(* One action is one turn of the Node event loop: a stream event handler   *)
(* or timer callback together with every promise continuation it releases  *)
(* (microtasks run to completion before the next event is delivered).      *)
(***************************************************************************)
EXTENDS Integers, Sequences, FiniteSets, TLC

(***************************************************************************)
(* Bounds                                                                  *)
(***************************************************************************)
NumFiles == 3
NumCalls == 2

FileNames == 1..NumFiles          \* files the reflection server can serve
Dangling  == NumFiles + 1         \* a file/symbol name the server does not know
AllNames  == 1..(NumFiles + 1)
Calls     == 1..NumCalls
BadDescriptor == 0                \* bytes that fail to parse, or carry no name

Range(s) == {s[i] : i \in 1..Len(s)}

(***************************************************************************)
(* The reflection server: symbol s is defined in file s; deps is the       *)
(* `dependency` list of each file (what getDeps reads from its bytes).     *)
(***************************************************************************)
ChainGraph    == [f \in FileNames |-> IF f < NumFiles THEN {f + 1} ELSE {}]
StarGraph     == [f \in FileNames |-> IF f = 1 THEN FileNames \ {1} ELSE {}]
CycleGraph    == [f \in FileNames |-> {(f % NumFiles) + 1}]
DanglingGraph == [f \in FileNames |-> {f + 1}]
DiamondGraph  == [f \in FileNames |-> IF f <= 2 THEN {g \in FileNames : g > f} ELSE {}]
Graphs == {ChainGraph, StarGraph, CycleGraph, DanglingGraph, DiamondGraph}

VARIABLES
  deps,        \* server: file name -> set of dependency file names
  rootCache,   \* DescriptorCache.rootCache entry of the one address modelled
  pc,          \* per getTypesRoot call: idle / sym / dep / done / rejected
  all,         \* fetchFileDescriptors: keys of the `all` map
  cur,         \* the fetchBatch stream the call is awaiting (or awaited last)
  old,         \* the fetchBatch stream before that (late events only)
  result,      \* registry returned by the call
  opened,      \* history: number of reflection streams the call opened
  hist,        \* history: facts about the call's past, read by the properties
  vin,         \* validateInputs: its arguments (toolName, inputs)
  venv,        \* validateInputs: what its awaits have delivered so far
  vpc,         \* validateInputs: the await it is at, or returned / rejected
  vout,        \* validateInputs: the list it returned
  vviol,       \* validateInputs: what applyPgvIndexRules returned
  cpc,         \* codec: start / encoded / decoded / thrown
  cfqtn,       \* codec: the type name given to encodeToAny
  cmsg,        \* codec: the JSON value given to encodeToAny
  cany,        \* codec: the Any envelope at hand
  cvia,        \* codec: where the envelope decodeAny got came from
  cret,        \* codec: what decodeAny returned
  dround,      \* dedup view of one resolution: the batch being received (0: done)
  dout,        \* dedup view: the `out` map of the batch, in insertion order
  dall,        \* dedup view: the `all` map, file name -> bytes
  dseen,       \* history: every descriptor received in the batch, in order
  dhist,       \* history: every descriptor received in the resolution, in order
  tpc,         \* CallTool handler: called / final / returned
  treq,        \* CallTool handler: the request
  tchunks,     \* CallTool handler: the chunks sent on the stream, in order
  terr,        \* CallTool handler: it returned a transport error
  lllm,        \* processConversation: the tool message pushed for the tool call
  lapi,        \* handleCallTool: the HTTP response written
  qin,         \* resolution: the reflection data and the symbols asked for
  qpc,         \* resolution: the await deriveTypesFromService is at, or done
  qout,        \* resolution: what was returned, or the Error thrown
  ein,         \* rule evaluation: the (index, candidate) evaluated repeatedly
  eruns,       \* rule evaluation: the lists returned for ein, in call order
  earr,        \* rule evaluation: the violations array of the latest call
  eother,      \* rule evaluation: other operations run since the first call
  ls,          \* getDescriptors: its list-services stream, promise and result
  pin,         \* getPgvRuleIndex: the descriptor files its fetch delivers
  ppc,         \* getPgvRuleIndex: start / fetching / returned / rejected
  pout,        \* getPgvRuleIndex: the index built and how it was built
  nfile,       \* normalizeDescriptorEnums: the file object it works on
  norig,       \* history: the file object before the first call
  nonce,       \* history: the file object after the first call
  ncount,      \* history: number of calls made on the file object
  mcache,      \* DescriptorCache.cache: packageVersion -> entry (one address)
  mcall,       \* the getDescriptors calls made, in the order they started
  mepoch,      \* history: number of clearCache calls made
  pgvCache,    \* DescriptorCache.pgvCache entry of the address
  conversation,\* LLMIntegration.conversation, the messages in push order
  gcalls,      \* sendMessage: tool_calls of the assistant response
  gpc,         \* sendMessage: the await it is at, or off / returned
  gi,          \* sendMessage: index of the tool call being executed
  glog,        \* history: the validateInputs results and callTool calls
  gres,        \* history: what the latest callTool returned or threw
  clients,     \* UI server: keys of the `clients` map
  unow,        \* UI server: Date.now()
  ureq,        \* UI server: the API requests received, in arrival order
  ulive,       \* history: ids a connect returned, not disconnected since
  win,         \* wire parser: the parser called and the bytes given to it
  wpar,        \* wire parser: the function whose loop is running, idle / done
  wbuf,        \* wire parser: the buffer of that loop
  woff,        \* wire parser: `off` at the loop head
  wwork,       \* wire parser: the sub-buffers still to be parsed, in order
  wsteps       \* history: loop iterations run since the call

rvars == <<deps, rootCache, pc, all, cur, old, result, opened, hist>>
vvars == <<vin, venv, vpc, vout, vviol>>
cvars == <<cpc, cfqtn, cmsg, cany, cvia, cret>>
dvars == <<dround, dout, dall, dseen, dhist>>
tvars == <<tpc, treq, tchunks, terr>>
lvars == <<lllm, lapi>>
qvars == <<qin, qpc, qout>>
evars == <<ein, eruns, earr, eother>>
svars == <<ls>>
pvars == <<pin, ppc, pout>>
nvars == <<nfile, norig, nonce, ncount>>
mvars == <<mcache, mcall, mepoch, pgvCache>>
gvars == <<conversation, gcalls, gpc, gi, glog, gres>>
uvars == <<clients, unow, ureq, ulive>>
wvars == <<win, wpar, wbuf, woff, wwork, wsteps>>
yvars == <<mvars, gvars, uvars, wvars>>
xvars == <<lvars, qvars, evars, svars, pvars, nvars, yvars>>
zvars == <<rvars, vvars, cvars, dvars, tvars, lvars, qvars, evars, svars, pvars, nvars>>
mrest == <<vvars, cvars, dvars, tvars, lvars, qvars, evars, svars, pvars, nvars, gvars, uvars, wvars>>
grest == <<zvars, mvars, uvars, wvars>>
urest == <<zvars, mvars, gvars, wvars>>
wrest == <<zvars, mvars, gvars, uvars>>
nrest == <<rvars, vvars, cvars, dvars, tvars, lvars, qvars, evars, svars, pvars, yvars>>
lrest == <<rvars, vvars, cvars, dvars, tvars, qvars, evars, svars, pvars, nvars, yvars>>
qrest == <<rvars, vvars, cvars, dvars, tvars, lvars, evars, svars, pvars, nvars, yvars>>
erest == <<rvars, vvars, cvars, dvars, tvars, lvars, qvars, svars, pvars, nvars, yvars>>
srest == <<rvars, vvars, cvars, dvars, tvars, lvars, qvars, evars, pvars, nvars, yvars>>
prest == <<rvars, vvars, cvars, dvars, tvars, lvars, qvars, evars, svars, nvars, yvars>>
ovars == <<dvars, tvars, xvars>>
vars == <<rvars, vvars, cvars, ovars>>

NoRoot     == [present |-> FALSE, files |-> {}]
Root(F)    == [present |-> TRUE, files |-> F]


(***************************************************************************)
(* A fetchBatch stream.  phase: what the gRPC call may still emit          *)
(* (open -> errored -> closed, or open -> closed); prom: the state of the  *)
(* promise fetchBatch returned; val: the value it resolved with; out: the  *)
(* keys of its `out` map in insertion order; unans: requests written and   *)
(* not yet answered; timer: the 7 s timer has not fired yet.               *)
(* History fields: clean (every answer so far carried the matching file),  *)
(* mark (which event found the promise pending, and `out` at that moment). *)
(***************************************************************************)
NoMark   == [kind |-> "none", at |-> <<>>]
NoStream == [phase |-> "none", prom |-> "none", val |-> <<>>, out |-> <<>>,
             unans |-> {}, timer |-> FALSE, clean |-> TRUE, mark |-> NoMark]
NewStream(reqs) ==
  [phase |-> "open", prom |-> "pending", val |-> <<>>, out |-> <<>>,
   unans |-> reqs, timer |-> TRUE, clean |-> TRUE, mark |-> NoMark]

\* Promise semantics: resolve/reject act on a pending promise only.
Resolve(s) ==
  IF s.prom = "pending" THEN [s EXCEPT !.prom = "resolved", !.val = s.out] ELSE s
Reject(s) ==
  IF s.prom = "pending" THEN [s EXCEPT !.prom = "rejected"] ELSE s
Mark(s, k) ==
  IF s.prom = "pending" THEN [s EXCEPT !.mark = [kind |-> k, at |-> s.out]] ELSE s

(***************************************************************************)
(* What the server may send for request n (a symbol in the first batch, a  *)
(* file name afterwards): the matching file, alone or followed by one of   *)
(* its dependencies, unparsable bytes, or an error_response message.       *)
(***************************************************************************)
FdResponse(files) == [kind |-> "file_descriptor_response", files |-> files]
ErrorResponse     == [kind |-> "error_response", files |-> <<>>]
Answers(n) ==
  (IF n \in FileNames
     THEN {FdResponse(<<n>>)}
          \cup {FdResponse(<<n, d>>) : d \in deps[n] \cap FileNames}
     ELSE {})
  \cup {FdResponse(<<BadDescriptor>>), ErrorResponse}
Matches(n, r) == r.kind = "file_descriptor_response" /\ n \in Range(r.files)

\* call.on('data'): keep the first descriptor of each name; skip bytes that
\* do not parse or carry no name; an error_response message is not looked at.
RECURSIVE Collect(_, _)
Collect(out, files) ==
  IF files = <<>> THEN out
  ELSE LET d == Head(files)
       IN Collect(IF d # BadDescriptor /\ d \notin Range(out)
                    THEN Append(out, d) ELSE out,
                  Tail(files))
OnData(s, n, r) ==
  [s EXCEPT !.out   = IF r.kind = "file_descriptor_response"
                        THEN Collect(@, r.files) ELSE @,
            !.unans = @ \ {n},
            !.clean = @ /\ Matches(n, r)]

\* Variants of the handlers below, used to test that the properties tell them apart.
OnErrorResolves(s) == Resolve(Mark([s EXCEPT !.phase = "errored"], "error"))
OnTimeoutRejects(s) == Reject(Mark([s EXCEPT !.timer = FALSE], "timeout"))
\* call.on('end', () => resolve(out))
OnEnd(s) == Resolve(Mark([s EXCEPT !.phase = "closed"], "end"))
\* call.on('error', (err) => reject(err))
OnError(s) == Reject(Mark([s EXCEPT !.phase = "errored"], "error"))
\* setTimeout(() => { call.cancel(); resolve(out); }, 7000)
OnTimeout(s) == Resolve(Mark([s EXCEPT !.timer = FALSE], "timeout"))

\* The previous stream of a call is kept for its late events only.
Archive(s) == [s EXCEPT !.out = <<>>, !.unans = {}, !.clean = TRUE]

(***************************************************************************)
(* fetchFileDescriptors: the dependency-closure loop                       *)
(***************************************************************************)
getDeps(f) == IF f \in FileNames THEN deps[f] ELSE {}

\* Step 2 before the loop: every dependency of a fetched file not in `all`.
PendingOf(files) == UNION {getDeps(f) : f \in files} \ files

\* One pass of the loop body over depBatch, in the map's insertion order:
\* a name not in `all` is added and its dependencies not (yet) in `all`
\* are put in `pending`.  Returns <<all, pending>>.
\* (MergeDepFirstOnly: a variant that merges the first arrival of a batch only.)
MergeDepFirstOnly(batch, files, pending) ==
  IF batch = <<>> THEN <<files, pending>>
  ELSE IF Head(batch) \notin files
    THEN <<files \cup {Head(batch)},
           pending \cup (getDeps(Head(batch)) \ (files \cup {Head(batch)}))>>
    ELSE <<files, pending>>
\* (MergeDepNoGuard: a variant without either `all.has` test.)
RECURSIVE MergeDepNoGuard(_, _, _)
MergeDepNoGuard(batch, files, pending) ==
  IF batch = <<>> THEN <<files, pending>>
  ELSE MergeDepNoGuard(Tail(batch), files \cup {Head(batch)},
                       pending \cup getDeps(Head(batch)))
\* (MergeDepOneLevel: a variant that forgets the dependencies of what it adds.)
MergeDepOneLevel(batch, files, pending) == <<files \cup Range(batch), pending>>
RECURSIVE MergeDep(_, _, _)
MergeDep(batch, files, pending) ==
  IF batch = <<>> THEN <<files, pending>>
  ELSE LET name == Head(batch)
       IN IF name \notin files
            THEN MergeDep(Tail(batch), files \cup {name},
                          pending \cup (getDeps(name) \ (files \cup {name})))
            ELSE MergeDep(Tail(batch), files, pending)

(***************************************************************************)
(* getTypesRoot                                                            *)
(***************************************************************************)
\* fullyQualifiedTypeNames.filter(Boolean) through a Set: 0 is the empty string.
Unique(nameList) == Range(nameList) \ {0}

\* (CacheHitNever: a variant that never finds the entry.)
CacheHitNever(cache) == FALSE
\* `if (existing) return existing;`
CacheHit(cache) == cache.present

\* Root.fromDescriptor + resolveAll: a field whose type lives in a file that is
\* not in the set cannot be resolved and makes resolveAll throw.  Every declared
\* dependency is taken to be referenced by a field.
Links(files) == \A f \in files : getDeps(f) \subseteq files

\* The continuation of `await fetchFileDescriptors` in getTypesRoot.
BuildRoot(c, files) ==
  IF Links(files)
    THEN /\ rootCache' = Root(files)
         /\ result' = [result EXCEPT ![c] = Root(files)]
         /\ pc' = [pc EXCEPT ![c] = "done"]
    ELSE /\ pc' = [pc EXCEPT ![c] = "rejected"]
         /\ UNCHANGED <<rootCache, result>>

\* The model stops opening streams at MaxRounds; the loop as written never
\* gets there (RoundsBounded), the cap only keeps broken variants finite.
MaxRounds == NumFiles + 3
\* The continuation of `await fetchBatch(...)` once the batch resolved with
\* val: merge, compute pending, then either the next round or the return.
Resume(c, s2) ==
  LET merged == IF pc[c] = "sym"
                  THEN <<Range(s2.val), PendingOf(Range(s2.val))>>
                  ELSE MergeDep(s2.val, all[c], {})
      files   == merged[1]
      pending == merged[2]
  IN /\ all' = [all EXCEPT ![c] = files]
     /\ IF pending = {}
          THEN /\ BuildRoot(c, files)
               /\ cur' = [cur EXCEPT ![c] = s2]
               /\ UNCHANGED <<old, opened>>
          ELSE /\ opened[c] < MaxRounds
               /\ pc' = [pc EXCEPT ![c] = "dep"]
               /\ old' = [old EXCEPT ![c] = Archive(s2)]
               /\ cur' = [cur EXCEPT ![c] = NewStream(pending)]
               /\ opened' = [opened EXCEPT ![c] = @ + 1]
               /\ UNCHANGED <<rootCache, result>>

\* (FailStoresEmpty: a variant that caches an empty registry on failure.)
FailStoresEmpty(c, s2) ==
  /\ pc' = [pc EXCEPT ![c] = "rejected"]
  /\ cur' = [cur EXCEPT ![c] = s2]
  /\ rootCache' = Root({})
  /\ UNCHANGED <<result, all, old, opened>>
\* A rejected batch rejects fetchFileDescriptors and getTypesRoot in turn.
Fail(c, s2) ==
  /\ pc' = [pc EXCEPT ![c] = "rejected"]
  /\ cur' = [cur EXCEPT ![c] = s2]
  /\ UNCHANGED <<rootCache, result, all, old, opened>>

\* What follows a handler that turned stream cur[c] into s2.
Settle(c, s2) ==
  IF cur[c].prom = "pending" /\ s2.prom = "resolved" THEN Resume(c, s2)
  ELSE IF cur[c].prom = "pending" /\ s2.prom = "rejected" THEN Fail(c, s2)
  ELSE /\ cur' = [cur EXCEPT ![c] = s2]
       /\ UNCHANGED <<rootCache, result, all, old, opened, pc>>

(***************************************************************************)
(* RealMcpClient.validateInputs and applyPgvIndexRules                     *)
(***************************************************************************)
MaxMinLen == 4

\* JavaScript values a candidate may hold for a field.
Undefined == [t |-> "undefined", s |-> "", n |-> 0]
Null      == [t |-> "null", s |-> "", n |-> 0]
Str(x)    == [t |-> "string", s |-> x, n |-> 0]
Num(x)    == [t |-> "number", s |-> "", n |-> x]
Values == {Undefined, Null, Str(""), Str("NYC"), Str("metric"), Str("kelvin"), Num(5)}

\* type.fieldsArray of the request type, in declaration order.
Fields == <<"location", "units">>
WeatherRequest == <<"examples", "weather", "GetWeatherRequest">>
WeatherService == <<"examples", "weather", "WeatherService">>

\* An entry of the rule index: rules.message.required, rules.type.case and,
\* for case 'string', rules.type.value.minLen (absent: {}) and .in.
NoRules == [present |-> FALSE, required |-> FALSE, case |-> "none",
            minLen |-> {}, in |-> <<>>]
Rules(req, case, minLen, in) ==
  [present |-> TRUE, required |-> req, case |-> case, minLen |-> minLen, in |-> in]
RuleChoices ==
  {NoRules} \cup
  {Rules(req, case, minLen, in) :
     req \in BOOLEAN, case \in {"string", "int32"},
     minLen \in {{}, {1}, {MaxMinLen}},
     in \in {<<>>, <<"metric", "imperial">>}}

RECURSIVE Join(_, _)
Join(list, sep) ==
  IF list = <<>> THEN ""
  ELSE IF Len(list) = 1 THEN list[1]
  ELSE list[1] \o sep \o Join(Tail(list), sep)

\* Variants of ApplyField below: one without the `continue` statements, one
\* that takes the empty string for a present value, one without the `in` test.
ApplyFieldNoContinue(viol, name, rules, value) ==
  LET str == IF value.t = "string" THEN value.s ELSE ""
      v1 == IF rules.present /\ rules.required /\ value \in {Undefined, Null, Str("")}
              THEN Append(viol, "field '" \o name \o "' is required") ELSE viol
      v2 == IF rules.present /\ rules.case = "string" /\ (\E m \in rules.minLen : Len(str) < m)
              THEN Append(v1, "field '" \o name \o "' must be at least "
                              \o ToString(CHOOSE m \in rules.minLen : TRUE)
                              \o " characters")
              ELSE v1
  IN IF rules.present /\ rules.case = "string" /\ Len(rules.in) > 0 /\ str # ""
        /\ str \notin Range(rules.in)
       THEN Append(v2, "field '" \o name \o "' must be one of: " \o Join(rules.in, ", "))
       ELSE v2
ApplyFieldEmptyIsPresent(viol, name, rules, value) ==
  IF ~rules.present THEN viol
  ELSE IF rules.required /\ value \in {Undefined, Null}
    THEN Append(viol, "field '" \o name \o "' is required")
  ELSE IF rules.case = "string"
    THEN LET str == IF value.t = "string" THEN value.s ELSE ""
         IN IF \E m \in rules.minLen : Len(str) < m
              THEN Append(viol, "field '" \o name \o "' must be at least "
                                \o ToString(CHOOSE m \in rules.minLen : TRUE)
                                \o " characters")
            ELSE IF Len(rules.in) > 0 /\ str # "" /\ str \notin Range(rules.in)
              THEN Append(viol, "field '" \o name \o "' must be one of: "
                                \o Join(rules.in, ", "))
            ELSE viol
  ELSE viol
ApplyFieldInUnchecked(viol, name, rules, value) ==
  IF ~rules.present THEN viol
  ELSE IF rules.required /\ value \in {Undefined, Null, Str("")}
    THEN Append(viol, "field '" \o name \o "' is required")
  ELSE IF rules.case = "string"
    THEN LET str == IF value.t = "string" THEN value.s ELSE ""
         IN IF \E m \in rules.minLen : Len(str) < m
              THEN Append(viol, "field '" \o name \o "' must be at least "
                                \o ToString(CHOOSE m \in rules.minLen : TRUE)
                                \o " characters")
            ELSE viol
  ELSE viol
\* A variant of ApplyField whose `in` test lacks the `str &&` conjunct.
ApplyFieldEmptyChecked(viol, name, rules, value) ==
  IF ~rules.present THEN viol
  ELSE IF rules.required /\ value \in {Undefined, Null, Str("")}
    THEN Append(viol, "field '" \o name \o "' is required")
  ELSE IF rules.case = "string"
    THEN LET str == IF value.t = "string" THEN value.s ELSE ""
         IN IF \E m \in rules.minLen : Len(str) < m
              THEN Append(viol, "field '" \o name \o "' must be at least "
                                \o ToString(CHOOSE m \in rules.minLen : TRUE)
                                \o " characters")
            ELSE IF Len(rules.in) > 0 /\ str \notin Range(rules.in)
              THEN Append(viol, "field '" \o name \o "' must be one of: "
                                \o Join(rules.in, ", "))
            ELSE viol
  ELSE viol
\* One iteration of the loop of applyPgvIndexRules: `viol` is the violations
\* array on entry, the result is the array when the iteration ends.
ApplyField(viol, name, rules, value) ==
  IF ~rules.present THEN viol
  ELSE IF rules.required /\ value \in {Undefined, Null, Str("")}
    THEN Append(viol, "field '" \o name \o "' is required")
  ELSE IF rules.case = "string"
    THEN LET str == IF value.t = "string" THEN value.s ELSE ""
         IN IF \E m \in rules.minLen : Len(str) < m
              THEN Append(viol, "field '" \o name \o "' must be at least "
                                \o ToString(CHOOSE m \in rules.minLen : TRUE)
                                \o " characters")
            ELSE IF Len(rules.in) > 0 /\ str # "" /\ str \notin Range(rules.in)
              THEN Append(viol, "field '" \o name \o "' must be one of: "
                                \o Join(rules.in, ", "))
            ELSE viol
  ELSE viol

RECURSIVE ApplyLoop(_, _, _, _)
ApplyLoop(viol, fields, fieldMap, candidate) ==
  IF fields = <<>> THEN viol
  ELSE ApplyLoop(ApplyField(viol, Head(fields), fieldMap[Head(fields)],
                            candidate[Head(fields)]),
                 Tail(fields), fieldMap, candidate)

\* applyPgvIndexRules(fqtn, type, candidate, index); index[fqtn] ?? {}.
applyPgvIndexRules(index, candidate) ==
  ApplyLoop(<<>>, Fields,
            IF index.hasType THEN index.fieldMap
            ELSE [f \in Range(Fields) |-> NoRules],
            candidate)

\* normalizeTypeName: a name is a list of its dot-separated parts.
normalizeTypeName(service, fqtn) ==
  IF fqtn = <<>> \/ Len(fqtn) > 1 THEN fqtn
  ELSE IF Len(service) <= 1 THEN fqtn
  ELSE SubSeq(service, 1, Len(service) - 1) \o fqtn

\* protobufjs Type.verify: the first field holding a value of the wrong kind.
RECURSIVE Verify(_, _, _)
Verify(fields, types, candidate) ==
  IF fields = <<>> THEN ""
  ELSE LET f == Head(fields)
           v == candidate[f]
       IN IF v.t \in {"undefined", "null"} THEN Verify(Tail(fields), types, candidate)
          ELSE IF types[f] = "string" /\ v.t # "string" THEN f \o ": string expected"
          ELSE IF types[f] = "int32" /\ v.t # "number" THEN f \o ": integer expected"
          ELSE Verify(Tail(fields), types, candidate)

ToolNames == {"get_weather", "no_such_tool"}
\* The tools the server advertises: get_weather, with one of these input types.
InputTypes == {<<>>, <<"GetWeatherRequest">>, WeatherRequest}

NoIndex == [hasType |-> FALSE, fieldMap |-> [f \in Range(Fields) |-> NoRules]]
NoEnv == [inputFqtn |-> <<>>, types |-> [f \in Range(Fields) |-> "string"],
          index |-> NoIndex, applied |-> FALSE]
VIdle ==
  /\ vin = [toolName |-> "get_weather", candidate |-> [f \in Range(Fields) |-> Undefined]]
  /\ venv = NoEnv
  /\ vpc = "off"
  /\ vout = <<>>
  /\ vviol = <<>>

(***************************************************************************)
(* DynamicProtoCodec: encodeToAny / decodeAny over a protobufjs Root        *)
(***************************************************************************)
\* The Root of the codec: type name -> fields in id order, each with its type.
WeatherRequestName  == Join(WeatherRequest, ".")
WeatherResponseName == "examples.weather.GetWeatherResponse"
WrongTypeName       == "wrong.Type"
CodecRoot ==
  [n \in {WeatherRequestName, WeatherResponseName} |->
     IF n = WeatherRequestName
       THEN <<[name |-> "location", type |-> "string"],
              [name |-> "units", type |-> "string"]>>
       ELSE <<[name |-> "conditions", type |-> "string"],
              [name |-> "humidity", type |-> "int32"]>>]
FieldNames(fields) == {fields[i].name : i \in 1..Len(fields)}
CodecValues == {Undefined, Null, Str(""), Str("NYC"), Num(0), Num(5)}

\* lookupType: throws unless the root holds a message type of that name.
LookupAlways(fqtn) == [ok |-> TRUE, fields |-> IF fqtn \in DOMAIN CodecRoot
                                                 THEN CodecRoot[fqtn] ELSE <<>>]
lookupType(fqtn) ==
  IF fqtn \in DOMAIN CodecRoot THEN [ok |-> TRUE, fields |-> CodecRoot[fqtn]]
  ELSE [ok |-> FALSE, fields |-> <<>>]

\* Type.verify on a plain object: null and undefined are skipped.
RECURSIVE TypeVerify(_, _)
TypeVerify(fields, obj) ==
  IF fields = <<>> THEN ""
  ELSE LET f == Head(fields)
           v == obj[f.name]
       IN IF v.t \in {"undefined", "null"} THEN TypeVerify(Tail(fields), obj)
          ELSE IF f.type = "string" /\ v.t # "string" THEN f.name \o ": string expected"
          ELSE IF f.type = "int32" /\ v.t # "number" THEN f.name \o ": integer expected"
          ELSE TypeVerify(Tail(fields), obj)

\* Type.fromObject then Type.encode: one (field number, value) entry per field
\* whose value is neither null nor undefined, in field order.
RECURSIVE Encode(_, _, _)
Encode(fields, obj, num) ==
  IF fields = <<>> THEN <<>>
  ELSE LET v == obj[Head(fields).name]
       IN (IF v.t \in {"undefined", "null"} THEN <<>>
           ELSE <<[num |-> num, val |-> v]>>)
          \o Encode(Tail(fields), obj, num + 1)
Bytes(entries) == [ok |-> TRUE, entries |-> entries]
Garbage == [ok |-> FALSE, entries |-> <<>>]

\* Type.decode: the fields found on the wire (the last entry of a field wins,
\* unknown field numbers are skipped); the others stay unset.
Decode(fields, bytes) ==
  [n \in FieldNames(fields) |->
     LET i == CHOOSE i \in 1..Len(fields) : fields[i].name = n
         hits == {k \in 1..Len(bytes.entries) : bytes.entries[k].num = i}
     IN IF hits = {} THEN Undefined
        ELSE bytes.entries[CHOOSE k \in hits : \A h \in hits : h <= k].val]

Default(type) == IF type = "string" THEN Str("") ELSE Num(0)
ToObjectNoDefaults(fields, msg) == msg
\* Type.toObject(msg, { defaults: true }): unset fields get their default.
ToObject(fields, msg) ==
  [n \in FieldNames(fields) |->
     LET i == CHOOSE i \in 1..Len(fields) : fields[i].name = n
     IN IF msg[n] = Undefined THEN Default(fields[i].type) ELSE msg[n]]

\* A type URL is a list of pieces; the regular expression of decodeAny removes
\* one leading "type.googleapis.com/".
UrlPrefix == "type.googleapis.com/"
StripPrefix(url) == IF url # <<>> /\ Head(url) = UrlPrefix THEN Tail(url) ELSE url
TypeUrls ==
  {<<>>, <<UrlPrefix>>}
  \cup UNION {{<<UrlPrefix, n>>, <<n>>, <<"example.com/", n>>, <<UrlPrefix, UrlPrefix, n>>} :
              n \in DOMAIN CodecRoot \cup {WrongTypeName}}

NoAny == [typeUrl |-> <<>>, value |-> Bytes(<<>>)]
\* encodeToAny(fqtn, jsonValue): [ok, any].
encodeToAny(fqtn, jsonValue) ==
  LET Type == lookupType(fqtn)
  IN IF ~Type.ok THEN [ok |-> FALSE, any |-> NoAny]
     ELSE IF TypeVerify(Type.fields, jsonValue) # "" THEN [ok |-> FALSE, any |-> NoAny]
     ELSE [ok |-> TRUE,
           any |-> [typeUrl |-> <<UrlPrefix, fqtn>>,
                    value |-> Bytes(Encode(Type.fields, jsonValue, 1))]]
\* decodeAny(anyMsg): [ok, ret].
decodeAny(anyMsg) ==
  LET Type == lookupType(Join(StripPrefix(anyMsg.typeUrl), ""))
  IN IF anyMsg.typeUrl = <<>> THEN [ok |-> FALSE, ret |-> <<>>]
     ELSE IF ~Type.ok THEN [ok |-> FALSE, ret |-> <<>>]
     ELSE IF ~anyMsg.value.ok THEN [ok |-> FALSE, ret |-> <<>>]
     ELSE [ok |-> TRUE,
           ret |-> ToObject(Type.fields, Decode(Type.fields, anyMsg.value))]

CIdle ==
  /\ cpc = "off"
  /\ cfqtn = ""
  /\ cmsg = <<>>
  /\ cany = NoAny
  /\ cvia = "none"
  /\ cret = <<>>

(***************************************************************************)
(* fetchBatch and the merge into `all`, with the bytes of each descriptor   *)
(* kept apart from its name: the server may send several descriptors that   *)
(* carry one file name and different bytes.                                 *)
(***************************************************************************)
MaxArrivals == 3
NumBatches == 2
\* A descriptor as parsed from a response: the empty name is 0.
DedupFiles == {1, 2}
Descriptors == [name : {0} \cup DedupFiles, bytes : {"a", "b"}]
Messages == {<<d>> : d \in Descriptors} \cup {<<d, e>> : d, e \in Descriptors}
NoBytes == [n \in DedupFiles |-> "none"]
OutNames(out) == {out[i].name : i \in 1..Len(out)}

RECURSIVE CollectBytesLastWins(_, _)
CollectBytesLastWins(out, files) ==
  IF files = <<>> THEN out
  ELSE LET d == Head(files)
       IN CollectBytesLastWins(
            IF d.name = 0 THEN out
            ELSE IF d.name \in OutNames(out)
              THEN [i \in 1..Len(out) |-> IF out[i].name = d.name THEN d ELSE out[i]]
            ELSE Append(out, d),
            Tail(files))
\* call.on('data') over the descriptors of one response:
\* `if (name && !seenNames.has(name)) { seenNames.add(name); out.set(name, bytes) }`
RECURSIVE CollectBytes(_, _)
CollectBytes(out, files) ==
  IF files = <<>> THEN out
  ELSE LET d == Head(files)
       IN CollectBytes(IF d.name # 0 /\ d.name \notin OutNames(out)
                         THEN Append(out, d) ELSE out,
                       Tail(files))

\* `for (const [name, bytes] of symBatch) all.set(name, bytes)`
RECURSIVE SetAll(_, _)
SetAll(files, batch) ==
  IF batch = <<>> THEN files
  ELSE SetAll([files EXCEPT ![Head(batch).name] = Head(batch).bytes], Tail(batch))
\* `for (const [name, bytes] of depBatch) if (!all.has(name)) all.set(name, bytes)`
RECURSIVE MergeBytes(_, _)
MergeBytes(files, batch) ==
  IF batch = <<>> THEN files
  ELSE MergeBytes(IF files[Head(batch).name] = "none"
                    THEN [files EXCEPT ![Head(batch).name] = Head(batch).bytes]
                    ELSE files,
                  Tail(batch))

\* History: the bytes of the first descriptor received under each name.
NoFirst == [first |-> NoBytes, count |-> 0, dup |-> FALSE]
RECURSIVE Received(_, _)
Received(h, files) ==
  IF files = <<>> THEN h
  ELSE LET d == Head(files)
       IN Received([first |-> IF d.name # 0 /\ h.first[d.name] = "none"
                                THEN [h.first EXCEPT ![d.name] = d.bytes]
                                ELSE h.first,
                    count |-> h.count + 1,
                    dup |-> h.dup \/ (d.name # 0 /\ h.first[d.name] \notin {"none", d.bytes})],
                   Tail(files))

DIdle ==
  /\ dround = 0
  /\ dout = <<>>
  /\ dall = NoBytes
  /\ dseen = NoFirst
  /\ dhist = NoFirst

(***************************************************************************)
(* simpleService.CallTool (the Go server): the chunks it sends              *)
(***************************************************************************)
ToolRequests ==
  [name : {"get_weather", "get_weather_forecast", "nonexistent_tool"},
   args : {"none", "wrong_type", "forecast_request"},
   date : {"", "tomorrow?", "past", "today", "future"}]

\* validateForecastDate: "" when the date is accepted, else the message.
validateForecastDate(dateStr) ==
  CASE dateStr = "" -> "date is required"
    [] dateStr = "tomorrow?" -> "invalid date format. Please use YYYY-MM-DD format"
    [] dateStr = "past" -> "cannot get forecast for past dates"
    [] dateStr = "today" -> "please use get_weather tool instead"
    [] OTHER -> ""

ErrorChunkNotFinal(code) ==
  [seq |-> 0, final |-> FALSE, payload |-> "error", code |-> code]
FinalChunkSeqZero == [seq |-> 0, final |-> TRUE, payload |-> "none", code |-> ""]
\* &ToolCallChunk{Payload: &ToolCallChunk_Error{...}, Seq: 0, Final: true}
ErrorChunk(code) ==
  [seq |-> 0, final |-> TRUE, payload |-> "error", code |-> code]
\* &ToolCallChunk{Payload: &ToolCallChunk_Result{Result: any}, Seq: 0, Final: false}
ResultChunk == [seq |-> 0, final |-> FALSE, payload |-> "result", code |-> ""]
\* &ToolCallChunk{Seq: 1, Final: true}
FinalChunk == [seq |-> 1, final |-> TRUE, payload |-> "none", code |-> ""]

\* The chunk a handler sends first: what it is, and whether it is the
\* `return stream.Send(...)` of an error path.
\* handleGetWeather: anypb.New may fail.
handleGetWeather(req, packed) ==
  IF ~packed THEN ErrorChunk("INTERNAL") ELSE ResultChunk
\* handleGetWeatherForecast: UnmarshalTo, validateForecastDate, anypb.New.
handleGetWeatherForecast(req, packed) ==
  IF req.args # "forecast_request" THEN ErrorChunk("INVALID_ARGUMENT")
  ELSE IF validateForecastDate(req.date) # "" THEN ErrorChunk("INVALID_ARGUMENT")
  ELSE IF ~packed THEN ErrorChunk("INTERNAL")
  ELSE ResultChunk
\* CallTool: switch req.Name.
FirstChunk(req, packed) ==
  CASE req.name = "get_weather" -> handleGetWeather(req, packed)
    [] req.name = "get_weather_forecast" -> handleGetWeatherForecast(req, packed)
    [] OTHER -> ErrorChunk("NOT_FOUND")

NoRequest == [name |-> "", args |-> "none", date |-> ""]
TIdle ==
  /\ tpc = "off"
  /\ treq = NoRequest
  /\ tchunks = <<>>
  /\ terr = FALSE

(***************************************************************************)
(* The consumers of validateInputs: LLMIntegration.processConversation     *)
(* (the tool message) and handleCallTool of the UI server (the response)   *)
(***************************************************************************)
\* A text is the list of the pieces it is concatenated from.
NoToolMessage == [pc |-> "off", content |-> <<>>]
NoResponse == [pc |-> "off", status |-> 0, error |-> "", validation_errors |-> <<>>]
\* conversation.push({role: 'tool', content: `Client-side Validation Error:
\* ${validationErrors[0]}`, ...}); continue
ToolMessage(validationErrors) ==
  [pc |-> "pushed",
   content |-> <<"Client-side Validation Error: ", validationErrors[1]>>]
\* res.writeHead(400); res.end(JSON.stringify({success: false,
\* error: validationErrors[0], validation_errors: validationErrors}))
ValidationResponse(validationErrors) ==
  [pc |-> "ended", status |-> 400, error |-> validationErrors[1],
   validation_errors |-> validationErrors]
LIdle ==
  /\ lllm = NoToolMessage
  /\ lapi = NoResponse

(***************************************************************************)
(* DescriptorCache.getDescriptors and clearCache: the service-metadata     *)
(* cache, keyed `${address}:${packageVersion}`, of one address             *)
(***************************************************************************)
MaxDescribe == 3                  \* getDescriptors calls made
MaxClears == 1                    \* clearCache calls made
PackageVersions == {"mcp.v0", "mcp.v1"}
NoEntry == "none"
\* The entry built after a successful listing, and the one of the catch block.
AvailableEntry == "available"
FallbackEntry == "fallback"
\* getDescriptors up to its await: `cached = this.cache.get(cacheKey)`; a hit
\* is returned at once, a miss starts listServicesUsingReflection.  `after`
\* records whether an earlier call for the key returned the fallback since
\* the last clearCache.
DescribeCall(key, cache, calls, epoch) ==
  [key |-> key,
   pc |-> IF cache[key] # NoEntry THEN "returned" ELSE "list",
   out |-> cache[key],
   attempted |-> cache[key] = NoEntry,
   epoch |-> epoch,
   after |-> \E i \in 1..Len(calls) :
               /\ calls[i].key = key /\ calls[i].epoch = epoch
               /\ calls[i].pc = "returned" /\ calls[i].out = FallbackEntry]
\* getDescriptors after its await: try { ... available: true } catch
\* { ... available: false }; `cached` is then stored and returned.
DescribedEntry(call, ok) ==
  [call EXCEPT !.pc = "returned",
               !.out = IF ok THEN AvailableEntry ELSE FallbackEntry]
\* (ClearAll: a variant of clearCache that empties every map.)
ClearAll(cache, roots, pgv) ==
  [cache |-> [k \in PackageVersions |-> NoEntry], rootCache |-> NoRoot, pgvCache |-> FALSE]
\* clearCache(): this.cache.clear()
clearCache(cache, roots, pgv) ==
  [cache |-> [k \in PackageVersions |-> NoEntry], rootCache |-> roots, pgvCache |-> pgv]
MIdle ==
  /\ mcache = [k \in PackageVersions |-> NoEntry]
  /\ mcall = <<>>
  /\ mepoch = 0
  /\ pgvCache = FALSE

(***************************************************************************)
(* RealMcpClient.callTool and the tool loop of                             *)
(* LLMIntegration.sendMessage / processConversation / getFollowUpResponse  *)
(***************************************************************************)
MaxToolCalls == 2                 \* tool calls in one assistant response
\* grpc.status, number -> name, for the codes used here.
GrpcStatus == [c \in {3, 14} |-> IF c = 3 THEN "INVALID_ARGUMENT" ELSE "UNAVAILABLE"]
\* What invokeUnary rejects with or toObject throws: error.code (0: none
\* set; 99: a number grpc.status does not name) and error.message.
GrpcErrors == [code : {0, 3, 14, 99}, message : {"", "no connection"}]
\* normalizeGrpcError(error)
normalizeGrpcError(error) ==
  [code |-> IF error.code # 0 /\ error.code \in DOMAIN GrpcStatus
              THEN GrpcStatus[error.code] ELSE "UNKNOWN",
   message |-> IF error.message # "" THEN error.message ELSE "gRPC request failed"]
NoError == [code |-> "", message |-> ""]
\* How a callTool call goes.  before: what happens ahead of the unary call
\* (ok, or one of the throws: tool not found, metadata missing, getTypesRoot
\* rejected, lookupType / createMessage threw); unary: the call resolved, was
\* rejected, or resolved with a message toObject throws on.
CallPaths ==
  [before : {"ok", "notFound", "noMetadata", "rootRejected", "typeThrew"},
   unary : {"resolved", "rejected", "toObjectThrew"},
   error : GrpcErrors]
ToolThrown == [kind |-> "thrown", success |-> FALSE, results |-> <<>>]
ToolReturned(success, entry) ==
  [kind |-> "returned", success |-> success, results |-> <<entry>>]
\* (CallToolRethrows: a variant whose catch block rethrows.)
CallToolRethrows(path) ==
  IF path.before # "ok" \/ path.unary # "resolved" THEN ToolThrown
  ELSE ToolReturned(TRUE, [seq |-> 0, final |-> TRUE, hasResult |-> TRUE,
                           hasError |-> FALSE, error |-> NoError])
\* callTool(toolName, args): the throws ahead of the try block, then
\* try { await invokeUnary(); toObject } catch { normalizeGrpcError }.
callTool(path) ==
  IF path.before # "ok" THEN ToolThrown
  ELSE IF path.unary = "resolved"
    THEN ToolReturned(TRUE, [seq |-> 0, final |-> TRUE, hasResult |-> TRUE,
                             hasError |-> FALSE, error |-> NoError])
  ELSE ToolReturned(FALSE, [seq |-> 0, final |-> TRUE, hasResult |-> FALSE,
                            hasError |-> TRUE,
                            error |-> normalizeGrpcError(path.error)])
NoToolResult ==
  [path |-> [before |-> "none", unary |-> "none", error |-> [code |-> 0, message |-> ""]],
   out |-> [kind |-> "none", success |-> FALSE, results |-> <<>>]]

\* A tool call of the assistant response: its id is its position in
\* tool_calls; type is 'function' or another kind; json tells whether
\* JSON.parse(function.arguments) succeeds.
ToolCallChoices == [type : {"function", "custom"}, json : {"ok", "unparsable"}]
ToolCallLists ==
  UNION {[1..n -> ToolCallChoices] : n \in 1..MaxToolCalls}
\* Messages of the conversation.  id: tool_call_id (0: none); calls: the
\* number of tool_calls an assistant message carries; text: which template
\* the content was built from.
UserMessage == [role |-> "user", id |-> 0, calls |-> 0, text |-> "user"]
AssistantMessage(calls, text) ==
  [role |-> "assistant", id |-> 0, calls |-> calls, text |-> text]
ToolReply(id, text) == [role |-> "tool", id |-> id, calls |-> 0, text |-> text]
\* (ExecuteSkipsUnparsable: a variant whose catch block pushes nothing.)
RECURSIVE ExecuteSkipsUnparsable(_, _, _)
ExecuteSkipsUnparsable(conv, calls, i) ==
  IF i > Len(calls) THEN [conversation |-> conv, gi |-> i, gpc |-> "followup"]
  ELSE IF calls[i].type # "function" \/ calls[i].json = "unparsable"
    THEN ExecuteSkipsUnparsable(conv, calls, i + 1)
  ELSE [conversation |-> conv, gi |-> i, gpc |-> "validate"]
\* The `for (const toolCall of assistantMessage.tool_calls)` loop from
\* tool call i up to its next await: a call that is not a function is
\* passed over, JSON.parse throwing lands in the catch block (the Error
\* message is pushed), otherwise validateInputs is awaited; after the last
\* tool call getFollowUpResponse is awaited.
RECURSIVE ExecuteFrom(_, _, _)
ExecuteFrom(conv, calls, i) ==
  IF i > Len(calls) THEN [conversation |-> conv, gi |-> i, gpc |-> "followup"]
  ELSE IF calls[i].type # "function" THEN ExecuteFrom(conv, calls, i + 1)
  ELSE IF calls[i].json = "unparsable"
    THEN ExecuteFrom(Append(conv, ToolReply(i, "Error: ")), calls, i + 1)
  ELSE [conversation |-> conv, gi |-> i, gpc |-> "validate"]
\* What follows `await validateInputs`: errors is the list returned, or
\* <<"threw">> standing for a rejection (caught by the catch block).
AfterValidateInputs(conv, calls, i, threw, errors) ==
  IF threw THEN ExecuteFrom(Append(conv, ToolReply(i, "Error: ")), calls, i + 1)
  ELSE IF Len(errors) > 0
    THEN ExecuteFrom(Append(conv, ToolReply(i, "Client-side Validation Error: ")),
                     calls, i + 1)
  ELSE [conversation |-> conv, gi |-> i, gpc |-> "callTool"]
\* What follows `await callTool`.
AfterCallTool(conv, calls, i, toolResult) ==
  IF toolResult.kind = "thrown"
    THEN ExecuteFrom(Append(conv, ToolReply(i, "Error: ")), calls, i + 1)
  ELSE IF ~toolResult.success /\ toolResult.results[1].hasError
    THEN ExecuteFrom(Append(conv, ToolReply(i, "Server-side Validation Error: ")),
                     calls, i + 1)
  ELSE ExecuteFrom(Append(conv, ToolReply(i, "results")), calls, i + 1)
GIdle ==
  /\ conversation = <<>>
  /\ gcalls = <<>>
  /\ gpc = "off"
  /\ gi = 0
  /\ glog = <<>>
  /\ gres = NoToolResult

(***************************************************************************)
(* The UI server (client/ui/src/server.ts): the `clients` map and the      *)
(* handlers of /api/connect, disconnect, list-tools and call-tool          *)
(***************************************************************************)
MaxRequests == 3                  \* API requests received
MaxNow == 2                       \* milliseconds the clock advances
\* clientId `ui-${Date.now()}` is modelled by the clock value; 0 is an id no
\* connect has returned.  A request names 0 or an id some connect returned.
KnownIds(requests) ==
  {0} \cup {requests[i].rid : i \in 1..Len(requests)}
Endpoints == {"connect", "disconnect", "list-tools", "call-tool"}
\* `args` of a call-tool body: missing (or null), a falsy scalar, an object.
UiArgs == {"undefined", "zero", "object"}
\* validateInputs(toolName, args || {}) and, inside it, `inputs ?? {}`: the
\* candidate that is validated.
ValidatedCandidate(args) ==
  IF args \in {"undefined", "zero"} THEN "{}" ELSE args
\* call(toolName, args) -> callTool -> createMessage(inputFqtn, args ?? {}):
\* `jsonValue == null || Object.keys(jsonValue).length === 0` gives
\* Type.create(), the message of {}.
RequestMessage(args) ==
  LET jsonValue == IF args = "undefined" THEN "{}" ELSE args
  IN IF jsonValue \in {"{}", "zero"} THEN "{}" ELSE jsonValue
NoApiRequest ==
  [endpoint |-> "none", clientId |-> 0, args |-> "undefined", pc |-> "done",
   status |-> 0, error |-> "", rid |-> 0, grpc |-> 0, admitted |-> FALSE,
   validated |-> "none", candidate |-> "", called |-> FALSE, message |-> ""]
Answer(r, status, error) == [r EXCEPT !.pc = "done", !.status = status, !.error = error]
\* (CheckSkipped: a variant of the handlers without the `if (!info)` test.)
CheckSkipped(r, map) ==
  IF r.endpoint = "list-tools" THEN [r EXCEPT !.pc = "discover", !.grpc = 1]
  ELSE [r EXCEPT !.pc = "validateInputs", !.grpc = 1,
                 !.candidate = ValidatedCandidate(r.args)]
\* handleListTools / handleCallTool up to their first gRPC call: without an
\* entry for clientId the 400 answer; else client.connect() (no I/O) and
\* discover(), or validateInputs, whose first step is the ListTools RPC.
CheckConnected(r, map) ==
  IF r.clientId \notin map THEN Answer(r, 400, "Not connected")
  ELSE IF r.endpoint = "list-tools" THEN [r EXCEPT !.pc = "discover", !.grpc = 1]
  ELSE [r EXCEPT !.pc = "validateInputs", !.grpc = 1,
                 !.candidate = ValidatedCandidate(r.args)]
\* (ValidationIgnored: a variant of handleCallTool that calls the tool
\* whatever validateInputs returned.)
ValidationIgnored(r, errors) ==
  [r EXCEPT !.pc = "call", !.called = TRUE, !.grpc = @ + 1,
            !.validated = IF Len(errors) > 0 THEN "errors" ELSE "empty",
            !.message = RequestMessage(r.args)]
\* handleCallTool after `await client.validateInputs(...)` returned: with
\* errors the 400 answer, else `client.call(toolName, args)` is started.
Validated(r, errors) ==
  IF Len(errors) > 0
    THEN [Answer(r, 400, errors[1]) EXCEPT !.validated = "errors"]
  ELSE [r EXCEPT !.pc = "call", !.called = TRUE, !.grpc = @ + 1,
                 !.validated = "empty", !.message = RequestMessage(r.args)]
UIdle ==
  /\ clients = {}
  /\ unow = 1
  /\ ureq = <<>>
  /\ ulive = {}

(***************************************************************************)
(* The wire-level parsers: readVarint, skipField and the tag loops of      *)
(* DescriptorCache (findExtension, extractPgvFromRaw*, the uninterpreted-  *)
(* option decoders) and of the UI server (server-meta extraction).         *)
(* A buffer is a sequence of bytes; offsets count from 0 as in the code.   *)
(***************************************************************************)
MaxBytes == 3                     \* bytes of a buffer after its leading tag
RECURSIVE Pow2(_)
Pow2(n) == IF n = 0 THEN 1 ELSE 2 * Pow2(n - 1)
RECURSIVE BitOr(_, _)
BitOr(a, b) ==
  IF a = 0 THEN b
  ELSE IF b = 0 THEN a
  ELSE (IF a % 2 = 1 \/ b % 2 = 1 THEN 1 ELSE 0) + 2 * BitOr(a \div 2, b \div 2)
\* A 32-bit value is kept as its two 16-bit halves.
Word(n) == [lo |-> n % 65536, hi |-> n \div 65536]
\* `x |= (b & 0x7f) << s` on 32-bit integers (the shift count is taken
\* modulo 32), read back with `x >>> 0`.
OrShifted(x, b, s) ==
  LET k == s % 32
      v == IF k < 16 THEN Word((b % 128) * Pow2(k))
           ELSE [lo |-> 0, hi |-> ((b % 128) * Pow2(k - 16)) % 65536]
  IN [lo |-> BitOr(x.lo, v.lo), hi |-> BitOr(x.hi, v.hi)]
\* `tag >>> 3`, `tag & 7`, and a value used as a length: lengths from 2^30
\* on are read as 2^30, which is past the end of every buffer.
FieldNo(x) == x.hi * 8192 + x.lo \div 8
WireType(x) == x.lo % 8
Extent(x) == IF x.hi >= 16384 THEN Pow2(30) ELSE x.hi * 65536 + x.lo
\* readVarint(buf, off): [value, offset after the varint]; the loop stops
\* at the end of the buffer.
RECURSIVE ReadVarintLoop(_, _, _, _)
ReadVarintLoop(buf, o, x, s) ==
  IF o >= Len(buf) THEN <<x, o>>
  ELSE LET b == buf[o + 1]
       IN IF b < 128 THEN <<OrShifted(x, b, s), o + 1>>
          ELSE ReadVarintLoop(buf, o + 1, OrShifted(x, b, s), s + 7)
readVarint(buf, off) == ReadVarintLoop(buf, off, Word(0), 0)
\* (SkipFieldRewind: a variant of skipField that steps back over the tag of
\* a field whose wire type it does not know.)
SkipFieldRewind(buf, off, wt) ==
  IF wt = 0 THEN readVarint(buf, off)[2]
  ELSE IF wt = 1 THEN off + 8
  ELSE IF wt = 2 THEN readVarint(buf, off)[2] + Extent(readVarint(buf, off)[1])
  ELSE IF wt = 5 THEN off + 4
  ELSE off - 1
\* skipField(buf, off, wt)
skipField(buf, off, wt) ==
  IF wt = 0 THEN readVarint(buf, off)[2]
  ELSE IF wt = 1 THEN off + 8
  ELSE IF wt = 2 THEN readVarint(buf, off)[2] + Extent(readVarint(buf, off)[1])
  ELSE IF wt = 5 THEN off + 4
  ELSE off
\* Uint8Array.prototype.subarray(begin, end): both ends clamped.
subarray(buf, begin, end) ==
  LET b == IF begin > Len(buf) THEN Len(buf) ELSE begin
      e == IF end > Len(buf) THEN Len(buf) ELSE end
  IN IF e <= b THEN <<>> ELSE SubSeq(buf, b + 1, e)
\* findExtension(buf, fieldNo) / findExtension777001(opts): is a
\* length-delimited field fieldNo found (the slice may be empty)?
RECURSIVE FindsExtension(_, _, _)
FindsExtension(buf, off, fieldNo) ==
  IF off >= Len(buf) THEN FALSE
  ELSE LET t == readVarint(buf, off)
       IN IF FieldNo(t[1]) = fieldNo /\ WireType(t[1]) = 2 THEN TRUE
          ELSE LET o == skipField(buf, t[2], WireType(t[1]))
               IN IF o > off THEN FindsExtension(buf, o, fieldNo) ELSE FALSE
RECURSIVE ExtensionOf(_, _, _)
ExtensionOf(buf, off, fieldNo) ==
  LET t == readVarint(buf, off)
      l == readVarint(buf, t[2])
  IN IF FieldNo(t[1]) = fieldNo /\ WireType(t[1]) = 2
       THEN subarray(buf, l[2], l[2] + Extent(l[1]))
       ELSE ExtensionOf(buf, skipField(buf, t[2], WireType(t[1])), fieldNo)
\* The parsers, and for each the length-delimited fields its loop takes
\* apart: field number -> the parsers later run on the slice.
Parsers ==
  {"findExtension", "extractPgvFromRawFile", "extractPgvFromRawMessage",
   "extractPgvFromRawField", "readUninterpretedOptions",
   "decodeUninterpretedOption", "decodeNamePart",
   "extractServerMetaFromFileDescriptorProto", "findExtension777001",
   "decodeServerMeta"}
Captured(parser) ==
  CASE parser = "findExtension" -> [fn \in {1071} |-> <<>>]
    [] parser = "extractPgvFromRawFile" ->
         [fn \in {2, 4} |-> IF fn = 4 THEN <<"extractPgvFromRawMessage">> ELSE <<>>]
    [] parser = "extractPgvFromRawMessage" ->
         [fn \in {1, 2, 3} |-> IF fn = 2 THEN <<"extractPgvFromRawField">>
                               ELSE IF fn = 3 THEN <<"extractPgvFromRawMessage">>
                               ELSE <<>>]
    [] parser = "extractPgvFromRawField" ->
         [fn \in {1, 8, 10} |-> IF fn = 8 THEN <<"findExtension", "readUninterpretedOptions">>
                                ELSE <<>>]
    [] parser = "readUninterpretedOptions" ->
         [fn \in {999} |-> <<"decodeUninterpretedOption">>]
    [] parser = "decodeUninterpretedOption" ->
         [fn \in {2, 8} |-> IF fn = 2 THEN <<"decodeNamePart">> ELSE <<>>]
    [] parser = "decodeNamePart" -> [fn \in {1} |-> <<>>]
    [] parser = "extractServerMetaFromFileDescriptorProto" ->
         [fn \in {8} |-> <<"findExtension777001">>]
    [] parser = "findExtension777001" -> [fn \in {777001} |-> <<>>]
    [] OTHER -> [fn \in {} |-> <<>>]
\* One iteration of the `while (off < buf.length)` loop of a parser, from
\* offset off: the offset it ends at, whether it returned from the function,
\* and the slices handed to other parsers.  (The raw walkers collect the
\* slices and parse them after the loop, the others parse them on the spot;
\* extractPgvFromRawField keeps the last options slice only, and
\* readPgvFromOptionsBytes runs readUninterpretedOptions unless the
\* extension decoded: here every slice is parsed, by both.)
Iterate(parser, buf, off) ==
  LET t == readVarint(buf, off)
      fn == FieldNo(t[1])
      wt == WireType(t[1])
      l == readVarint(buf, t[2])
      end == l[2] + Extent(l[1])
      slice == subarray(buf, l[2], end)
      skipped == [off |-> skipField(buf, t[2], wt), returned |-> FALSE, children |-> <<>>]
  IN IF parser = "decodeServerMeta"
       THEN IF wt # 2 THEN skipped
            ELSE [off |-> end, returned |-> FALSE, children |-> <<>>]
     ELSE IF parser = "decodeNamePart" /\ fn = 2 /\ wt = 0
       THEN [off |-> l[2], returned |-> FALSE, children |-> <<>>]
     ELSE IF wt = 2 /\ fn \in DOMAIN Captured(parser)
       THEN IF parser \in {"findExtension", "findExtension777001"}
              THEN [off |-> l[2], returned |-> TRUE, children |-> <<>>]
            ELSE IF parser = "extractServerMetaFromFileDescriptorProto"
              THEN IF FindsExtension(slice, 0, 777001)
                     THEN [off |-> l[2], returned |-> TRUE,
                           children |-> <<[parser |-> "findExtension777001", buf |-> slice],
                                          [parser |-> "decodeServerMeta",
                                           buf |-> ExtensionOf(slice, 0, 777001)]>>]
                     ELSE [off |-> end, returned |-> FALSE,
                           children |-> <<[parser |-> "findExtension777001", buf |-> slice]>>]
            ELSE [off |-> end, returned |-> FALSE,
                  children |-> [k \in 1..Len(Captured(parser)[fn]) |->
                                  [parser |-> Captured(parser)[fn][k], buf |-> slice]]]
     ELSE skipped
\* The next slice whose loop has something to run on (a loop on an empty
\* buffer ends at once).
RECURSIVE NextWork(_)
NextWork(work) ==
  IF work = <<>> THEN <<>>
  ELSE IF Head(work).buf = <<>> THEN NextWork(Tail(work))
  ELSE work
\* The varint encoding of n (the bytes of a tag).
RECURSIVE Varint(_)
Varint(n) == IF n < 128 THEN <<n>> ELSE <<128 + (n % 128)>> \o Varint(n \div 128)
\* Bytes a buffer is made of: tags of wire types 0, 2, 5 (these also serve
\* as lengths 0 and 2), of the wire types 3, 4, 6 and 7, the tag of field 2
\* as a varint, and a byte with the continuation bit.
ByteChoices == {0, 2, 13, 11, 12, 14, 15, 16, 128}
RECURSIVE BytesUpTo(_)
BytesUpTo(n) ==
  IF n = 0 THEN {<<>>}
  ELSE BytesUpTo(n - 1) \cup {Append(b, x) : b \in {c \in BytesUpTo(n - 1) : Len(c) = n - 1},
                                           x \in ByteChoices}
\* The buffers given to a parser: any bytes, or bytes behind the tag of one
\* of the length-delimited fields the parser takes apart.
WireInputs(parser) ==
  BytesUpTo(MaxBytes)
    \cup {Varint(8 * fn + 2) \o b : fn \in DOMAIN Captured(parser), b \in BytesUpTo(MaxBytes)}
NoWireInput == [parser |-> "none", buf |-> <<>>]
WIdle ==
  /\ win = NoWireInput
  /\ wpar = "idle"
  /\ wbuf = <<>>
  /\ woff = 0
  /\ wwork = <<>>
  /\ wsteps = 0
YIdle == MIdle /\ GIdle /\ UIdle /\ WIdle

(***************************************************************************)
(* Symbol resolution: RealMcpClient.deriveTypesFromService and             *)
(* DynamicProtoCodec.lookupType, with the Error each one throws            *)
(***************************************************************************)
ReflectionService == "grpc.reflection.v1alpha.ServerReflection"
WeatherServiceName == Join(WeatherService, ".")
UnitsEnumName == "examples.weather.Units"
\* descriptorInfo.meta.services, as the server lists them.
ServiceLists ==
  {<<>>, <<ReflectionService>>, <<WeatherServiceName>>,
   <<WeatherServiceName, ReflectionService>>,
   <<"examples.other.OtherService", WeatherServiceName>>}
\* service.methods of the weather service, in declaration order.
MethodLists == {<<>>, <<"GetWeather">>, <<"GetWeather", "GetWeatherForecast">>}
\* What the registry built from the fetched files holds: the weather service?
\* its methods; the names of its message types; the names of its enums.
Registries ==
  [hasService : BOOLEAN, methods : MethodLists,
   types : SUBSET {WeatherRequestName, WeatherResponseName},
   enums : SUBSET {UnitsEnumName}]
ResolveInputs ==
  [services : ServiceLists, root : Registries,
   grpcService : {WeatherServiceName, "examples.weather.Missing"},
   grpcMethod : {"GetWeather", "Unknown"},
   fqtn : {WeatherRequestName, WrongTypeName, UnitsEnumName}]

\* An outcome: returned, or an Error thrown with this message (a text is the
\* list of the pieces it is concatenated from).
Returned == [ok |-> TRUE, message |-> <<>>]
Thrown(message) == [ok |-> FALSE, message |-> message]
NoOutcome == [ok |-> FALSE, message |-> <<>>]

CheckListed(in) ==
  IF in.grpcService \notin Range(in.services)
    THEN Thrown(<<"Service ", in.grpcService,
                  " not found in reflection data. Available services: ">>
                \o in.services)
    ELSE Returned
\* root.lookupService(grpcService) throws on a name the root does not hold, so
\* the `if (!service)` statement after it is never reached with a falsy value;
\* then service.methods[grpcMethod].
LookupMethod(in) ==
  IF ~in.root.hasService
    THEN Thrown(<<"no such Service '", in.grpcService, "' in Root">>)
  ELSE IF in.grpcMethod \notin Range(in.root.methods)
    THEN Thrown(<<"Method ", in.grpcMethod,
                  " not found in service descriptors. Available methods: ">>
                \o in.root.methods)
  ELSE Returned
\* lookupType as an outcome: root.lookupTypeOrEnum throws on a name the root
\* does not hold; an enum is found and has no `fields`.
LookupTypeError(in) ==
  IF in.fqtn \in in.root.types THEN Returned
  ELSE IF in.fqtn \in in.root.enums
    THEN Thrown(<<"Type not found in root: ", in.fqtn>>)
  ELSE Thrown(<<"no such Type or Enum '", in.fqtn, "' in Root">>)

NoResolveInput ==
  [services |-> <<>>,
   root |-> [hasService |-> FALSE, methods |-> <<>>, types |-> {}, enums |-> {}],
   grpcService |-> "", grpcMethod |-> "", fqtn |-> ""]
QIdle ==
  /\ qin = NoResolveInput
  /\ qpc = "off"
  /\ qout = NoOutcome

(***************************************************************************)
(* applyPgvIndexRules called repeatedly on one client                      *)
(***************************************************************************)
MaxEvals == 2
MaxOther == 2
EvalRules ==
  {NoRules, Rules(TRUE, "string", {}, <<>>),
   Rules(FALSE, "string", {MaxMinLen}, <<"metric", "imperial">>)}
EvalInputs ==
  [index : [hasType : BOOLEAN, fieldMap : [Range(Fields) -> EvalRules]],
   candidate : [Range(Fields) -> Values]]
\* What another caller validates in between.
OtherInputs ==
  [index : [hasType : {TRUE},
            fieldMap : {[f \in Range(Fields) |-> Rules(TRUE, "string", {}, <<>>)]}],
   candidate : {[f \in Range(Fields) |-> Undefined],
                [f \in Range(Fields) |-> Str("NYC")]}]
\* `const violations: string[] = []`: each call starts from a new empty
\* array, whatever array the call before it filled.  The variant keeps it.
NewViolationsShared(previous) == previous
NewViolations(previous) == <<>>
\* One call of applyPgvIndexRules: the array it returns.
Evaluation(in, previous) ==
  NewViolations(previous) \o applyPgvIndexRules(in.index, in.candidate)
NoEvalInput == [index |-> NoIndex, candidate |-> [f \in Range(Fields) |-> Undefined]]
EIdle ==
  /\ ein = NoEvalInput
  /\ eruns = <<>>
  /\ earr = <<>>
  /\ eother = 0

(***************************************************************************)
(* getDescriptors and listServicesUsingReflection                          *)
(***************************************************************************)
MaxListData == 2
NoList == [phase |-> "none", prom |-> "none", val |-> <<>>, timer |-> FALSE,
           got |-> 0, desc |-> "none"]
\* What the server may send on the list-services stream.
ListAnswers ==
  {[kind |-> "list_services_response", service |-> sv] :
     sv \in {<<>>, <<WeatherServiceName, ReflectionService>>}}
  \cup {[kind |-> "error_response", service |-> <<>>]}
\* call.on('data'): resolve(services) on a list_services_response only.
ListOnData(s, r) ==
  LET t == [s EXCEPT !.got = @ + 1]
  IN IF r.kind = "list_services_response" /\ s.prom = "pending"
       THEN [t EXCEPT !.prom = "resolved", !.val = r.service]
       ELSE t
\* call.on('error'): call.end(); reject(error)
ListOnError(s) ==
  IF s.prom = "pending" THEN [s EXCEPT !.phase = "errored", !.prom = "rejected"]
  ELSE [s EXCEPT !.phase = "errored"]
\* call.on('end', () => {})
ListOnEnd(s) == [s EXCEPT !.phase = "closed"]
\* (ListOnTimeoutSilent: a variant whose timer only cancels the call.)
ListOnTimeoutSilent(s) == [s EXCEPT !.timer = FALSE]
\* setTimeout(() => { call.cancel(); reject(new Error('Reflection timeout')); }, 5000)
ListOnTimeout(s) ==
  IF s.prom = "pending" THEN [s EXCEPT !.timer = FALSE, !.prom = "rejected"]
  ELSE [s EXCEPT !.timer = FALSE]
\* getDescriptors after its await: the services listed, or the fallback entry
\* of the catch block; either one is cached and returned.
Described(s, s2) ==
  IF s.prom = "pending" /\ s2.prom = "resolved" THEN [s2 EXCEPT !.desc = "available"]
  ELSE IF s.prom = "pending" /\ s2.prom = "rejected" THEN [s2 EXCEPT !.desc = "fallback"]
  ELSE s2
SIdle == ls = NoList

(***************************************************************************)
(* getPgvRuleIndex: rule extraction from the fetched descriptor files       *)
(***************************************************************************)
NumPgvFiles == 2
\* The options bytes of a field: extension field 1071 (absent, a FieldRules
\* message that decodes, or bytes fromBinary throws on) and the first
\* uninterpreted option under (validate.rules) that yields rules, if any.
FieldOptions ==
  [ext : {"absent", "decodes", "garbled"}, text : {"none", "message", "string"}]
NoOptions == [ext |-> "absent", text |-> "none"]
\* A field of a message: its name, its json_name ("" when not set), its options.
FieldDescs ==
  [name : {"location"}, jsonName : {"", "location"}, options : FieldOptions]
  \cup [name : {"forecast_date"}, jsonName : {"", "forecastDate"},
        options : FieldOptions]
\* File i declares one message, MessageNames[i], with one field.
MessageNames ==
  [i \in 1..NumPgvFiles |->
     IF i = 1 THEN WeatherRequestName
     ELSE "examples.weather.Message" \o ToString(i)]
PgvInputs ==
  [files : UNION {[1..n -> FieldDescs] : n \in 1..NumPgvFiles},
   keeps : BOOLEAN]

NoRule == [src |-> "none", kind |-> "none"]
\* (ReadPgvTextFirst: a variant that scans the uninterpreted options first.)
ReadPgvTextFirst(options) ==
  IF options.text # "none" THEN [src |-> "text", kind |-> options.text]
  ELSE IF options.ext = "decodes" THEN [src |-> "ext", kind |-> "FieldRules"]
  ELSE NoRule
\* readPgvFromOptionsBytes(buf): the rules object, or NoRule for null.
readPgvFromOptionsBytes(options) ==
  IF options.ext = "decodes" THEN [src |-> "ext", kind |-> "FieldRules"]
  ELSE IF options.text # "none" THEN [src |-> "text", kind |-> options.text]
  ELSE NoRule
\* field.getOptions() then serializeBinary(): the options as the typed pass
\* sees them; the generated FieldOptions class may or may not carry an
\* extension it does not know through the round trip.
TypedOptions(field, keeps) ==
  IF keeps THEN field.options ELSE [field.options EXCEPT !.ext = "absent"]
\* readPgvRulesFromFieldOptions(field)
readPgvRulesFromFieldOptions(field, keeps) ==
  IF TypedOptions(field, keeps) = NoOptions THEN NoRule
  ELSE readPgvFromOptionsBytes(TypedOptions(field, keeps))
\* `f.getJsonName() || f.getName() || ''` and `jsonName || name`
IndexKey(field) == IF field.jsonName # "" THEN field.jsonName ELSE field.name
\* applyPgvIndexRules: `const name = field.name; fieldMap[name]`, the field
\* of the protobufjs type built from the descriptor, named by its `name`.
LookupKey(field) == field.name
\* index[fqtn][key] = rules
Put(index, fqtn, key, rules, pass) ==
  {e \in index : ~(e.fqtn = fqtn /\ e.key = key)}
  \cup {[fqtn |-> fqtn, key |-> key, rules |-> rules, pass |-> pass]}
\* The first loop of getPgvRuleIndex (extractPgvFromMessage on each message of
\* each file): <<index, totalAdded>>.
RECURSIVE TypedPass(_, _, _, _, _)
TypedPass(files, i, keeps, index, totalAdded) ==
  IF i > Len(files) THEN <<index, totalAdded>>
  ELSE LET rules == readPgvRulesFromFieldOptions(files[i], keeps)
       IN IF rules # NoRule
            THEN TypedPass(files, i + 1, keeps,
                           Put(index, MessageNames[i], IndexKey(files[i]), rules, "typed"),
                           totalAdded + 1)
            ELSE TypedPass(files, i + 1, keeps, index, totalAdded)
\* The second loop (extractPgvFromRawFile on each file).
RECURSIVE RawPass(_, _, _)
RawPass(files, i, index) ==
  IF i > Len(files) THEN index
  ELSE LET rules == IF files[i].options = NoOptions THEN NoRule
                    ELSE readPgvFromOptionsBytes(files[i].options)
       IN RawPass(files, i + 1,
                  IF rules # NoRule
                    THEN Put(index, MessageNames[i], IndexKey(files[i]), rules, "raw")
                    ELSE index)
BuildIndex(in) ==
  LET typed == TypedPass(in.files, 1, in.keeps, {}, 0)
  IN IF typed[2] = 0
       THEN [index |-> RawPass(in.files, 1, typed[1]), totalAdded |-> typed[2],
             rawRan |-> TRUE]
       ELSE [index |-> typed[1], totalAdded |-> typed[2], rawRan |-> FALSE]
NoPgvInput == [files |-> <<>>, keeps |-> FALSE]
NoPgvIndex == [index |-> {}, totalAdded |-> 0, rawRan |-> FALSE]
PIdle ==
  /\ pin = NoPgvInput
  /\ ppc = "off"
  /\ pout = NoPgvIndex

(***************************************************************************)
(* normalizeDescriptorEnums on the JSON form of a file descriptor           *)
(***************************************************************************)
MaxFields == 2
MaxNormalize == 2
\* A field object: oneofIndex (a number, or not set), type and label (the
\* enum name, or already the number).
FieldObjs ==
  [oneofIndex : {Undefined, Num(0)}, type : {Str("TYPE_STRING"), Num(9)},
   label : {Str("LABEL_OPTIONAL")}]
FieldLists == UNION {[1..n -> FieldObjs] : n \in 0..MaxFields}
\* A message object: oneofDecl (-1: not an array, else its length), field,
\* nestedType; messages nest one level deep here.
InnerMsgs == [oneofDecl : {-1, 0, 1}, field : FieldLists, nestedType : {<<>>}]
OuterMsgs ==
  [oneofDecl : {-1, 0, 1}, field : FieldLists,
   nestedType : {<<>>} \cup {<<m>> : m \in InnerMsgs}]
FileObjs == {<<m>> : m \in OuterMsgs}

\* typeEnum[field.type] ?? fallbackTypeEnum[field.type] ?? field.type
TypeNumber(type) == IF type = Str("TYPE_STRING") THEN Num(9) ELSE type
LabelNumber(label) == IF label = Str("LABEL_OPTIONAL") THEN Num(1) ELSE label
\* The two loops of fixMessage over msg.field.
FixField(field, strip) ==
  [oneofIndex |-> IF strip /\ field.oneofIndex.t = "number" THEN Undefined
                  ELSE field.oneofIndex,
   type |-> IF field.type.t = "string" THEN TypeNumber(field.type) ELSE field.type,
   label |-> IF field.label.t = "string" THEN LabelNumber(field.label)
             ELSE field.label]
\* (FixMessageShallow: a variant that does not descend into nestedType.)
FixMessageShallow(msg) ==
  [oneofDecl |-> msg.oneofDecl,
   field |-> [i \in 1..Len(msg.field) |-> FixField(msg.field[i], msg.oneofDecl <= 0)],
   nestedType |-> msg.nestedType]
RECURSIVE fixMessage(_)
fixMessage(msg) ==
  [oneofDecl |-> msg.oneofDecl,
   field |-> [i \in 1..Len(msg.field) |-> FixField(msg.field[i], msg.oneofDecl <= 0)],
   nestedType |-> [i \in 1..Len(msg.nestedType) |-> fixMessage(msg.nestedType[i])]]
\* normalizeDescriptorEnums(fileObj): fileObj.messageType after the call.
normalizeDescriptorEnums(fileObj) ==
  [i \in 1..Len(fileObj) |-> fixMessage(fileObj[i])]
NIdle ==
  /\ nfile = <<>>
  /\ norig = <<>>
  /\ nonce = <<>>
  /\ ncount = 0
XIdle == LIdle /\ QIdle /\ EIdle /\ SIdle /\ PIdle /\ NIdle /\ YIdle
OIdle == DIdle /\ TIdle /\ XIdle

NameLists == {<<>>} \cup {<<a>> : a \in 0..Dangling}
             \cup {<<a, b>> : a, b \in 0..Dangling}

NoHist == [roots |-> {}, startCache |-> NoRoot, faithful |-> TRUE,
           bad |-> FALSE, tmo0 |-> FALSE, symFiles |-> 0]
\* The size of `all` when the symbol batch has been merged.
SymFiles(c, n) == IF pc[c] = "sym" /\ pc'[c] # "sym" THEN Cardinality(all'[c]) ELSE n

Init ==
  /\ deps \in Graphs
  /\ rootCache = NoRoot
  /\ pc = [c \in Calls |-> "idle"]
  /\ all = [c \in Calls |-> {}]
  /\ cur = [c \in Calls |-> NoStream]
  /\ old = [c \in Calls |-> NoStream]
  /\ result = [c \in Calls |-> NoRoot]
  /\ opened = [c \in Calls |-> 0]
  /\ hist = [c \in Calls |-> NoHist]
  /\ VIdle
  /\ CIdle
  /\ OIdle

\* getTypesRoot(address, nameList) up to its first await.
GetTypesRoot(c) ==
  /\ pc[c] = "idle"
  /\ \E nameList \in NameLists :
       /\ hist' = [hist EXCEPT ![c].roots = Unique(nameList),
                               ![c].startCache = rootCache]
       /\ IF CacheHit(rootCache)
            THEN /\ result' = [result EXCEPT ![c] = rootCache]
                 /\ pc' = [pc EXCEPT ![c] = "done"]
                 /\ UNCHANGED <<rootCache, cur, opened>>
            ELSE IF Unique(nameList) = {}
            THEN /\ rootCache' = Root({})
                 /\ result' = [result EXCEPT ![c] = Root({})]
                 /\ pc' = [pc EXCEPT ![c] = "done"]
                 /\ UNCHANGED <<cur, opened>>
            ELSE /\ pc' = [pc EXCEPT ![c] = "sym"]
                 /\ cur' = [cur EXCEPT ![c] = NewStream(Unique(nameList))]
                 /\ opened' = [opened EXCEPT ![c] = 1]
                 /\ UNCHANGED <<rootCache, result>>
  /\ UNCHANGED <<vvars, cvars, ovars, deps, all, old>>

\* A response message arrives on the call's stream.
StreamData(c) ==
  /\ cur[c].phase = "open"
  /\ \E n \in cur[c].unans : \E r \in Answers(n) :
       /\ cur' = [cur EXCEPT ![c] = OnData(@, n, r)]
       /\ hist' = [hist EXCEPT ![c].bad = @ \/ BadDescriptor \in Range(r.files)]
  /\ UNCHANGED <<vvars, cvars, ovars, deps, rootCache, pc, all, old, result, opened>>

\* End of stream (after an OK status, or after the error of a failed one).
StreamEnd(c) ==
  /\ cur[c].phase \in {"open", "errored"}
  /\ Settle(c, OnEnd(cur[c]))
  /\ hist' = [hist EXCEPT ![c].faithful =
                IF cur[c].prom = "pending"
                  THEN @ /\ cur[c].clean /\ cur[c].unans = {} ELSE @,
                          ![c].symFiles = SymFiles(c, @)]
  /\ UNCHANGED <<vvars, cvars, ovars, deps>>

\* The stream fails with a non-OK status.
StreamError(c) ==
  /\ cur[c].phase = "open"
  /\ Settle(c, OnError(cur[c]))
  /\ hist' = [hist EXCEPT ![c].faithful = @ /\ cur[c].prom # "pending",
                          ![c].symFiles = SymFiles(c, @)]
  /\ UNCHANGED <<vvars, cvars, ovars, deps>>

\* The 7 s timer of the batch fires (it is never cleared).
Timeout(c) ==
  /\ cur[c].timer
  /\ Settle(c, OnTimeout(cur[c]))
  /\ hist' = [hist EXCEPT ![c].faithful = @ /\ cur[c].prom # "pending",
                          ![c].tmo0 = @ \/ (cur[c].prom = "pending" /\ cur[c].out = <<>>),
                          ![c].symFiles = SymFiles(c, @)]
  /\ UNCHANGED <<vvars, cvars, ovars, deps>>

\* Late events of the previous stream of the call.
OldEvent(c) ==
  /\ \/ old[c].phase \in {"open", "errored"} /\ old' = [old EXCEPT ![c] = OnEnd(@)]
     \/ old[c].phase = "open" /\ old' = [old EXCEPT ![c] = OnError(@)]
     \/ old[c].timer /\ old' = [old EXCEPT ![c] = OnTimeout(@)]
  /\ UNCHANGED <<vvars, cvars, ovars, deps, rootCache, pc, all, cur, result, opened, hist>>

(***************************************************************************)
(* validateInputs (client/ts), one action per await                        *)
(***************************************************************************)
VReturn(list) == vpc' = "returned" /\ vout' = list
VReject       == vpc' = "rejected" /\ vout' = <<>>

RIdle ==
  /\ deps = ChainGraph
  /\ rootCache = NoRoot
  /\ pc = [c \in Calls |-> "idle"]
  /\ all = [c \in Calls |-> {}]
  /\ cur = [c \in Calls |-> NoStream]
  /\ old = [c \in Calls |-> NoStream]
  /\ result = [c \in Calls |-> NoRoot]
  /\ opened = [c \in Calls |-> 0]
  /\ hist = [c \in Calls |-> NoHist]

InitV ==
  /\ RIdle
  /\ CIdle
  /\ OIdle
  /\ vin \in [toolName : ToolNames, candidate : [Range(Fields) -> Values]]
  /\ venv = NoEnv
  /\ vpc = "listTools"
  /\ vout = <<>>
  /\ vviol = <<>>

\* `await this.listTools()` settles: the RPC fails, or returns the tools.
VListTools ==
  /\ vpc = "listTools"
  /\ \/ /\ VReject
        /\ UNCHANGED venv
     \/ \E inputType \in InputTypes :
          LET inputFqtn == normalizeTypeName(WeatherService, inputType)
          IN IF vin.toolName # "get_weather"
               THEN /\ VReturn(<<"Tool '" \o vin.toolName
                                 \o "' is not advertised by the server.">>)
                    /\ UNCHANGED venv
             ELSE IF inputFqtn = <<>>
               THEN /\ VReturn(<<"Tool '" \o vin.toolName
                                 \o "' is missing input type metadata.">>)
                    /\ UNCHANGED venv
             ELSE /\ vpc' = "typesRoot"
                  /\ venv' = [venv EXCEPT !.inputFqtn = inputFqtn]
                  /\ UNCHANGED vout
  /\ UNCHANGED <<rvars, cvars, ovars, vin, vviol>>

\* `await getTypesRoot(...)` settles: it rejects, or returns a root in which
\* the type is missing, or one holding the type with these field types.
VTypesRoot ==
  /\ vpc = "typesRoot"
  /\ \/ /\ VReturn(<<"14 UNAVAILABLE: No connection established">>)
        /\ UNCHANGED venv
     \/ /\ VReturn(<<"Type not found in root: " \o Join(venv.inputFqtn, ".")>>)
        /\ UNCHANGED venv
     \/ \E types \in [Range(Fields) -> {"string", "int32"}] :
          LET verifyError == Verify(Fields, types, vin.candidate)
          IN IF verifyError # ""
               THEN VReturn(<<verifyError>>) /\ UNCHANGED venv
               ELSE /\ vpc' = "pgvIndex"
                    /\ venv' = [venv EXCEPT !.types = types]
                    /\ UNCHANGED vout
  /\ UNCHANGED <<rvars, cvars, ovars, vin, vviol>>

\* `await getPgvRuleIndex(...)` settles: it rejects, or returns an index; then
\* applyPgvIndexRules and, without violations, fromObject.  The fields are
\* scalars and the candidate has passed verify, so fromObject only converts
\* (String(v), v | 0) and does not throw: the list returned is `violations`.
VPgvIndex ==
  /\ vpc = "pgvIndex"
  /\ \/ /\ VReturn(<<"14 UNAVAILABLE: No connection established">>)
        /\ UNCHANGED <<vviol, venv>>
     \/ \E hasType \in BOOLEAN : \E fieldMap \in [Range(Fields) -> RuleChoices] :
          LET violations == applyPgvIndexRules(
                              [hasType |-> hasType, fieldMap |-> fieldMap],
                              vin.candidate)
          IN /\ vviol' = violations
             /\ venv' = [venv EXCEPT !.index = [hasType |-> hasType,
                                                 fieldMap |-> fieldMap],
                                       !.applied = TRUE]
             /\ VReturn(violations)
  /\ UNCHANGED <<rvars, cvars, ovars, vin>>

\* processConversation, one tool call: `await validateInputs` has returned;
\* with violations the tool message is pushed, else callTool is next.
ProcessConversation ==
  /\ vpc = "returned"
  /\ lllm.pc = "off"
  /\ lllm' = IF Len(vout) > 0 THEN ToolMessage(vout)
             ELSE [NoToolMessage EXCEPT !.pc = "callTool"]
  /\ UNCHANGED <<lrest, lapi>>

\* handleCallTool: `await client.validateInputs` has returned; with
\* violations the 400 response is written, else the tool is called.
HandleCallTool ==
  /\ vpc = "returned"
  /\ lapi.pc = "off"
  /\ lapi' = IF Len(vout) > 0 THEN ValidationResponse(vout)
             ELSE [NoResponse EXCEPT !.pc = "call"]
  /\ UNCHANGED <<lrest, lllm>>

NextV ==
  \/ VListTools
  \/ VTypesRoot
  \/ VPgvIndex
  \/ ProcessConversation
  \/ HandleCallTool

SpecV == InitV /\ [][NextV]_vars

\* One getTypesRoot call against a server and a stream that may do anything:
\* malformed answers, early end, errors, timeouts, events after settlement.
Next ==
  \/ GetTypesRoot(1)
  \/ StreamData(1)
  \/ StreamEnd(1)
  \/ StreamError(1)
  \/ Timeout(1)
  \/ OldEvent(1)

Spec == Init /\ [][Next]_vars

\* The same, with the one thing the code's scheduling guarantees: the 7 s timer
\* set by each fetchBatch fires.
SpecLive == Init /\ [][Next]_vars /\ WF_vars(Timeout(1))

\* Concurrent getTypesRoot calls on one DescriptorCache.  To keep the state
\* space small each call here asks for at most one type name, every answer is
\* the matching file alone, the stream ends only when every request has been
\* answered, no timer fires and no event arrives after the batch has settled;
\* a batch may still fail with a stream error at any moment.  (Spec explores
\* the hostile stream, timers included, for a single call.)
Pending(c) == cur[c].prom = "pending"
CallStart(c) == GetTypesRoot(c) /\ Cardinality(hist'[c].roots) <= 1
CallData(c)  == Pending(c) /\ StreamData(c) /\ cur'[c].clean
                /\ Len(cur'[c].out) <= Len(cur[c].out) + 1
CallEnd(c)   == Pending(c) /\ cur[c].unans = {} /\ StreamEnd(c)
CallError(c) == Pending(c) /\ StreamError(c)

NextCache ==
  \E c \in Calls :
    \/ CallStart(c)
    \/ CallData(c)
    \/ CallEnd(c)
    \/ CallError(c)

\* The cache is exercised against a deep, a wide and a broken dependency list.
InitCache == Init /\ deps \in {ChainGraph, StarGraph, DanglingGraph}
SpecCache == InitCache /\ [][NextCache]_vars

\* Two getTypesRoot calls on one DescriptorCache, the second made once the
\* first has returned or rejected.  A batch may fail with a stream error, or
\* end before every request was answered (the registry then fails to link).
NextRetry ==
  \/ CallStart(1)
  \/ pc[1] \in {"done", "rejected"} /\ CallStart(2)
  \/ \E c \in {1, 2} : CallData(c)
  \/ \E c \in {1, 2} : Pending(c) /\ StreamEnd(c)
  \/ \E c \in {1, 2} : CallError(c)

SpecRetry == InitCache /\ [][NextRetry]_vars

\* getDescriptors(address, metadata, packageVersion) is called.
DescribeStart(key) ==
  /\ Len(mcall) < MaxDescribe
  /\ mcall' = Append(mcall, DescribeCall(key, mcache, mcall, mepoch))
  /\ UNCHANGED <<mcache, mepoch, pgvCache, rvars, mrest>>

\* listServicesUsingReflection settles for call i (resolved: ok; rejected by
\* a stream error or the timeout: ~ok); the continuation of getDescriptors
\* runs: this.cache.set(cacheKey, cached); return cached.
DescribeSettle(i, ok) ==
  /\ i \in 1..Len(mcall)
  /\ mcall[i].pc = "list"
  /\ LET d == DescribedEntry(mcall[i], ok)
     IN /\ mcall' = [mcall EXCEPT ![i] = d]
        /\ mcache' = IF d.pc = "returned" THEN [mcache EXCEPT ![d.key] = d.out]
                     ELSE mcache
  /\ UNCHANGED <<mepoch, pgvCache, rvars, mrest>>

ClearCache ==
  /\ mepoch < MaxClears
  /\ LET c == clearCache(mcache, rootCache, pgvCache)
     IN /\ mcache' = c.cache
        /\ rootCache' = c.rootCache
        /\ pgvCache' = c.pgvCache
  /\ mepoch' = mepoch + 1
  /\ UNCHANGED <<mcall, deps, pc, all, cur, old, result, opened, hist, mrest>>

\* getPgvRuleIndex has built an index: this.pgvCache.set(key, index).
PgvStore ==
  /\ ~pgvCache
  /\ pgvCache' = TRUE
  /\ UNCHANGED <<mcache, mcall, mepoch, rvars, mrest>>

InitMeta == Init /\ deps = ChainGraph

\* getDescriptors calls on one DescriptorCache, concurrent as under the
\* Promise.all of getToolsForOpenAI, and clearCache.
NextMeta ==
  \/ \E key \in PackageVersions : DescribeStart(key)
  \/ \E i \in 1..MaxDescribe : \E ok \in BOOLEAN : DescribeSettle(i, ok)
  \/ ClearCache

SpecMeta == InitMeta /\ [][NextMeta]_vars

\* getTypesRoot, getPgvRuleIndex and getDescriptors on one DescriptorCache
\* with a clearCache; the second getTypesRoot is made after the clearCache.
NextClear ==
  \/ CallStart(1)
  \/ mepoch > 0 /\ CallStart(2)
  \/ \E c \in {1, 2} : CallData(c)
  \/ \E c \in {1, 2} : CallEnd(c)
  \/ mcall = <<>> /\ DescribeStart("mcp.v0")
  \/ \E ok \in BOOLEAN : DescribeSettle(1, ok)
  \/ PgvStore
  \/ ClearCache

SpecClear == InitMeta /\ [][NextClear]_vars

\* sendMessage(userMessage) up to `await openai.chat.completions.create`.
SendMessage ==
  /\ gpc = "off"
  /\ conversation' = Append(conversation, UserMessage)
  /\ gpc' = "create"
  /\ UNCHANGED <<gcalls, gi, glog, gres, grest>>

\* The completion settles: rejected or without a message (sendMessage's
\* catch pushes the error), a plain assistant message, or tool calls.
CreateSettles ==
  /\ gpc = "create"
  /\ \/ /\ conversation' = Append(conversation, AssistantMessage(0, "Error: "))
        /\ gpc' = "returned"
        /\ UNCHANGED <<gcalls, gi>>
     \/ /\ conversation' = Append(conversation, AssistantMessage(0, "content"))
        /\ gpc' = "returned"
        /\ UNCHANGED <<gcalls, gi>>
     \/ \E calls \in ToolCallLists :
          LET next == ExecuteFrom(
                        Append(conversation, AssistantMessage(Len(calls), "content")),
                        calls, 1)
          IN /\ gcalls' = calls
             /\ conversation' = next.conversation
             /\ gi' = next.gi
             /\ gpc' = next.gpc
  /\ UNCHANGED <<glog, gres, grest>>

\* `await this.mcpClient.validateInputs(toolName, toolArgs)` settles.
ValidateSettles ==
  /\ gpc = "validate"
  /\ \E threw \in BOOLEAN : \E errors \in {<<>>, <<"e1">>, <<"e1", "e2">>} :
       /\ threw => errors = <<>>
       /\ LET next == AfterValidateInputs(conversation, gcalls, gi, threw, errors)
          IN /\ conversation' = next.conversation
             /\ gi' = next.gi
             /\ gpc' = next.gpc
             /\ glog' = LET v == Append(glog, [op |-> "validateInputs", call |-> gi,
                                               threw |-> threw, errors |-> errors])
                        IN IF next.gpc = "callTool" /\ next.gi = gi
                             THEN Append(v, [op |-> "callTool", call |-> gi,
                                             threw |-> FALSE, errors |-> <<>>])
                             ELSE v
  /\ UNCHANGED <<gcalls, gres, grest>>

\* `await this.mcpClient.callTool(toolName, toolArgs)` settles.
CallToolSettles ==
  /\ gpc = "callTool"
  /\ \E path \in CallPaths :
       LET toolResult == callTool(path)
           next == AfterCallTool(conversation, gcalls, gi, toolResult)
       IN /\ gres' = [path |-> path, out |-> toolResult]
          /\ conversation' = next.conversation
          /\ gi' = next.gi
          /\ gpc' = next.gpc
  /\ UNCHANGED <<gcalls, glog, grest>>

\* getFollowUpResponse: the completion has content, has none, or failed.
FollowUpSettles ==
  /\ gpc = "followup"
  /\ \/ conversation' = Append(conversation, AssistantMessage(0, "content"))
     \/ conversation' = conversation
     \/ conversation' = Append(conversation,
                               AssistantMessage(0, "Error getting follow-up response: "))
  /\ gpc' = "returned"
  /\ UNCHANGED <<gcalls, gi, glog, gres, grest>>

InitLoop == Init /\ deps = ChainGraph

NextLoop ==
  \/ SendMessage
  \/ CreateSettles
  \/ ValidateSettles
  \/ CallToolSettles
  \/ FollowUpSettles

SpecLoop == InitLoop /\ [][NextLoop]_vars

\* The clock of the UI server's host advances by a millisecond.
Tick ==
  /\ unow < MaxNow
  /\ unow' = unow + 1
  /\ UNCHANGED <<clients, ureq, ulive, urest>>

\* A POST /api/connect has been read: client.connect() does no I/O, then
\* reflectDescriptorSet opens its reflection stream.
HandleConnect ==
  /\ Len(ureq) < MaxRequests
  /\ ureq' = Append(ureq, [NoApiRequest EXCEPT !.endpoint = "connect",
                                            !.pc = "reflect", !.grpc = 1])
  /\ UNCHANGED <<clients, unow, ulive, urest>>

\* reflectDescriptorSet settles.  Resolved, and readServerMetaFromFdsBytes
\* returning: the client is registered under `ui-${Date.now()}` and the id
\* is returned.  Otherwise handleApiRequest's catch answers 500.
ConnectSettles(i, ok) ==
  /\ i \in 1..Len(ureq)
  /\ ureq[i].pc = "reflect"
  /\ IF ok
       THEN /\ clients' = clients \cup {unow}
            /\ ulive' = ulive \cup {unow}
            /\ ureq' = [ureq EXCEPT ![i] = [Answer(@, 200, "") EXCEPT !.rid = unow]]
       ELSE /\ ureq' = [ureq EXCEPT ![i] = Answer(@, 500, "reflection failed")]
            /\ UNCHANGED <<clients, ulive>>
  /\ UNCHANGED <<unow, urest>>

\* handleDisconnect: clients.delete(clientId); 200.
HandleDisconnect(clientId) ==
  /\ Len(ureq) < MaxRequests
  /\ clients' = clients \ {clientId}
  /\ ulive' = ulive \ {clientId}
  /\ ureq' = Append(ureq, Answer([NoApiRequest EXCEPT !.endpoint = "disconnect",
                                                   !.clientId = clientId], 200, ""))
  /\ UNCHANGED <<unow, urest>>

\* handleListTools up to `await client.discover()`.
HandleListTools(clientId) ==
  /\ Len(ureq) < MaxRequests
  /\ ureq' = Append(ureq, CheckConnected(
                            [NoApiRequest EXCEPT !.endpoint = "list-tools",
                                              !.clientId = clientId,
                                              !.admitted = clientId \in ulive],
                            clients))
  /\ UNCHANGED <<clients, unow, ulive, urest>>

\* discover() settles: the tools are answered, or the catch answers 500.
DiscoverSettles(i, ok) ==
  /\ i \in 1..Len(ureq)
  /\ ureq[i].pc = "discover"
  /\ ureq' = [ureq EXCEPT ![i] = IF ok THEN Answer(@, 200, "")
                                 ELSE Answer(@, 500, "discover failed")]
  /\ UNCHANGED <<clients, unow, ulive, urest>>

\* handleCallTool up to `await client.validateInputs(toolName, args || {})`.
HandleCallToolRequest(clientId, args) ==
  /\ Len(ureq) < MaxRequests
  /\ ureq' = Append(ureq, CheckConnected(
                            [NoApiRequest EXCEPT !.endpoint = "call-tool",
                                              !.clientId = clientId,
                                              !.args = args,
                                              !.admitted = clientId \in ulive],
                            clients))
  /\ UNCHANGED <<clients, unow, ulive, urest>>

\* validateInputs settles: it rejects (listTools failed; the catch answers
\* 500) or returns a list.
UiValidateSettles(i, threw, errors) ==
  /\ i \in 1..Len(ureq)
  /\ ureq[i].pc = "validateInputs"
  /\ ureq' = [ureq EXCEPT ![i] = IF threw
                                   THEN [Answer(@, 500, "validateInputs failed")
                                           EXCEPT !.validated = "threw"]
                                 ELSE Validated(@, errors)]
  /\ UNCHANGED <<clients, unow, ulive, urest>>

\* `for await (const chunk of client.call(toolName, args))` ends: callTool
\* returned its one chunk (200), or threw (500).
UiCallSettles(i, ok) ==
  /\ i \in 1..Len(ureq)
  /\ ureq[i].pc = "call"
  /\ ureq' = [ureq EXCEPT ![i] = IF ok THEN Answer(@, 200, "")
                                 ELSE Answer(@, 500, "callTool failed")]
  /\ UNCHANGED <<clients, unow, ulive, urest>>

InitUi == Init /\ deps = ChainGraph

NextUi ==
  \/ Tick
  \/ HandleConnect
  \/ \E i \in 1..MaxRequests : \E ok \in BOOLEAN : ConnectSettles(i, ok)
  \/ \E id \in KnownIds(ureq) : HandleDisconnect(id)
  \/ \E id \in KnownIds(ureq) : HandleListTools(id)
  \/ \E i \in 1..MaxRequests : \E ok \in BOOLEAN : DiscoverSettles(i, ok)
  \/ \E id \in KnownIds(ureq) : \E args \in UiArgs : HandleCallToolRequest(id, args)
  \/ \E i \in 1..MaxRequests : \E threw \in BOOLEAN :
       \E errors \in {<<>>, <<"e1">>, <<"e1", "e2">>} :
         (threw => errors = <<>>) /\ UiValidateSettles(i, threw, errors)
  \/ \E i \in 1..MaxRequests : \E ok \in BOOLEAN : UiCallSettles(i, ok)

SpecUi == InitUi /\ [][NextUi]_vars

\* The tool loop of an LLMIntegration, or the UI server: two programs, a
\* behaviour follows one of them.
NextGate ==
  \/ UIdle /\ NextLoop
  \/ GIdle /\ NextUi

SpecGate == InitUi /\ [][NextGate]_vars

\* A parser is called on a buffer.
WireCall(parser, buf) ==
  /\ wpar = "idle"
  /\ win' = [parser |-> parser, buf |-> buf]
  /\ wpar' = IF buf = <<>> THEN "done" ELSE parser
  /\ wbuf' = buf
  /\ UNCHANGED <<woff, wwork, wsteps, wrest>>

\* One loop iteration of the running parser; when its loop is over, the
\* next pending slice is taken up, or the call returns.
WireStep ==
  /\ wpar \notin {"idle", "done"}
  /\ LET r == Iterate(wpar, wbuf, woff)
         work == NextWork(r.children \o wwork)
     IN IF ~r.returned /\ r.off < Len(wbuf)
          THEN /\ woff' = r.off
               /\ wwork' = r.children \o wwork
               /\ UNCHANGED <<wpar, wbuf>>
        ELSE IF work = <<>>
          THEN /\ wpar' = "done"
               /\ woff' = r.off
               /\ wwork' = <<>>
               /\ UNCHANGED wbuf
        ELSE /\ wpar' = Head(work).parser
             /\ wbuf' = Head(work).buf
             /\ woff' = 0
             /\ wwork' = Tail(work)
  /\ wsteps' = wsteps + 1
  /\ UNCHANGED <<win, wrest>>

InitWire == Init /\ deps = ChainGraph

NextWire ==
  \/ wpar = "idle" /\ \E parser \in Parsers : \E buf \in WireInputs(parser) : WireCall(parser, buf)
  \/ WireStep

SpecWire == InitWire /\ [][NextWire]_vars

\* validateInputs and callTool on one client, for one tool, against a server
\* that answers every request with the matching file: the getTypesRoot call
\* of each.  Call 1 is validateInputs ([inputFqtn]); call 2 is callTool
\* ([inputFqtn, outputFqtn]), issued with or without a validateInputs before.
ValidateInputsRoot ==
  /\ GetTypesRoot(1)
  /\ Cardinality(hist'[1].roots) = 1
  /\ hist'[1].roots \subseteq FileNames
  /\ pc[2] # "idle" => hist'[1].roots \subseteq hist[2].roots
CallToolRoot ==
  /\ pc[1] \in {"idle", "done"}
  /\ GetTypesRoot(2)
  /\ Cardinality(hist'[2].roots) = 2
  /\ hist[1].roots \subseteq hist'[2].roots
  /\ hist'[2].roots \subseteq FileNames

NextToolTypes ==
  \/ ValidateInputsRoot
  \/ CallToolRoot
  \/ \E c \in {1, 2} : CallData(c)
  \/ \E c \in {1, 2} : CallEnd(c)
  \/ \E c \in {1, 2} : CallError(c)

SpecToolTypes == InitCache /\ [][NextToolTypes]_vars

\* The codec: encodeToAny on a type name and a JSON value, then decodeAny on
\* the envelope it returned; or decodeAny on an envelope received from a peer.
Objects(fqtn) ==
  IF fqtn \in DOMAIN CodecRoot
    THEN [FieldNames(CodecRoot[fqtn]) -> CodecValues]
    ELSE {<<>>}
InitCodec ==
  /\ RIdle
  /\ VIdle
  /\ OIdle
  /\ cpc = "start"
  /\ cfqtn \in DOMAIN CodecRoot \cup {WrongTypeName}
  /\ cmsg \in Objects(cfqtn)
  /\ cany = NoAny
  /\ cvia = "none"
  /\ cret = <<>>

EncodeToAny ==
  /\ cpc = "start"
  /\ LET r == encodeToAny(cfqtn, cmsg)
     IN /\ cpc' = IF r.ok THEN "encoded" ELSE "thrown"
        /\ cany' = r.any
  /\ UNCHANGED <<rvars, vvars, ovars, cfqtn, cmsg, cvia, cret>>

\* decodeAny on the envelope encodeToAny returned.
DecodeEncoded ==
  /\ cpc = "encoded"
  /\ LET r == decodeAny(cany)
     IN /\ cpc' = IF r.ok THEN "decoded" ELSE "thrown"
        /\ cret' = r.ret
  /\ cvia' = "encodeToAny"
  /\ UNCHANGED <<rvars, vvars, ovars, cfqtn, cmsg, cany>>

\* decodeAny on an envelope that came off the wire.
DecodeReceived ==
  /\ cpc = "start"
  /\ \E url \in TypeUrls :
       \E value \in {Garbage, Bytes(<<>>), Bytes(<<[num |-> 1, val |-> Str("NYC")]>>)} :
         LET r == decodeAny([typeUrl |-> url, value |-> value])
         IN /\ cany' = [typeUrl |-> url, value |-> value]
            /\ cpc' = IF r.ok THEN "decoded" ELSE "thrown"
            /\ cret' = r.ret
  /\ cvia' = "wire"
  /\ UNCHANGED <<rvars, vvars, ovars, cfqtn, cmsg>>

NextCodec ==
  \/ EncodeToAny
  \/ DecodeEncoded
  \/ DecodeReceived

SpecCodec == InitCodec /\ [][NextCodec]_vars

\* One resolution seen through its descriptors: the batches of
\* fetchFileDescriptors one after the other, each receiving responses that
\* carry one or two descriptors, then merged into `all` when it ends.
InitDedup ==
  /\ RIdle
  /\ VIdle
  /\ CIdle
  /\ TIdle
  /\ XIdle
  /\ dround = 1
  /\ dout = <<>>
  /\ dall = NoBytes
  /\ dseen = NoFirst
  /\ dhist = NoFirst

DedupData ==
  /\ dround > 0
  /\ \E msg \in Messages :
       /\ dseen.count + Len(msg) <= MaxArrivals
       /\ dout' = CollectBytes(dout, msg)
       /\ dseen' = Received(dseen, msg)
       /\ dhist' = Received(dhist, msg)
  /\ UNCHANGED <<rvars, vvars, cvars, tvars, xvars, dround, dall>>

\* The batch resolves: the symbol batch is copied into `all`, a filename
\* batch is merged; then the next round starts or the loop ends.
DedupEnd ==
  /\ dround > 0
  /\ dall' = IF dround = 1 THEN SetAll(dall, dout) ELSE MergeBytes(dall, dout)
  /\ dout' = <<>>
  /\ dseen' = NoFirst
  /\ \/ dround < NumBatches /\ dround' = dround + 1
     \/ dround' = 0
  /\ UNCHANGED <<rvars, vvars, cvars, tvars, xvars, dhist>>

NextDedup ==
  \/ DedupData
  \/ DedupEnd

SpecDedup == InitDedup /\ [][NextDedup]_vars

\* One CallTool RPC on the Go server.  stream.Send may fail (the client is
\* gone): the chunk is then not sent and the handler returns the error.
InitTool ==
  /\ RIdle
  /\ VIdle
  /\ CIdle
  /\ DIdle
  /\ XIdle
  /\ tpc = "called"
  /\ treq \in ToolRequests
  /\ tchunks = <<>>
  /\ terr = FALSE

\* CallTool up to and including its first stream.Send.
CallTool ==
  /\ tpc = "called"
  /\ \E packed, sent \in BOOLEAN :
       LET chunk == FirstChunk(treq, packed)
       IN /\ tchunks' = IF sent THEN Append(tchunks, chunk) ELSE tchunks
          /\ terr' = ~sent
          /\ tpc' = IF sent /\ chunk.payload = "result" THEN "final" ELSE "returned"
  /\ UNCHANGED <<rvars, vvars, cvars, dvars, xvars, treq>>

\* `return stream.Send(&ToolCallChunk{Seq: 1, Final: true})`
SendFinal ==
  /\ tpc = "final"
  /\ \E sent \in BOOLEAN :
       /\ tchunks' = IF sent THEN Append(tchunks, FinalChunk) ELSE tchunks
       /\ terr' = ~sent
  /\ tpc' = "returned"
  /\ UNCHANGED <<rvars, vvars, cvars, dvars, xvars, treq>>

NextTool ==
  \/ CallTool
  \/ SendFinal

SpecTool == InitTool /\ [][NextTool]_vars

\* One resolution: deriveTypesFromService(grpcService, grpcMethod), or one
\* codec.lookupType(fqtn), over the reflection data and registry of qin.
InitResolve ==
  /\ RIdle
  /\ VIdle
  /\ CIdle
  /\ DIdle
  /\ TIdle
  /\ YIdle
  /\ LIdle
  /\ EIdle
  /\ SIdle
  /\ PIdle
  /\ NIdle
  /\ qin \in ResolveInputs
  /\ qpc = "start"
  /\ qout = NoOutcome

\* `await this.descriptors.getDescriptors(...)` settles: it rejects, or the
\* listed services are checked.
DeriveListed ==
  /\ qpc = "start"
  /\ \/ /\ qout' = Thrown(<<"14 UNAVAILABLE: No connection established">>)
        /\ qpc' = "thrown"
     \/ LET o == CheckListed(qin)
        IN /\ qout' = IF o.ok THEN NoOutcome ELSE o
           /\ qpc' = IF o.ok THEN "typesRoot" ELSE "thrown"
  /\ UNCHANGED <<qrest, qin>>

\* `await this.descriptors.getTypesRoot(...)` settles: it rejects, or the
\* service and the method are looked up and the type names returned.
DeriveRooted ==
  /\ qpc = "typesRoot"
  /\ \/ /\ qout' = Thrown(<<"14 UNAVAILABLE: No connection established">>)
        /\ qpc' = "thrown"
     \/ LET o == LookupMethod(qin)
        IN /\ qout' = o
           /\ qpc' = IF o.ok THEN "derived" ELSE "thrown"
  /\ UNCHANGED <<qrest, qin>>

\* codec.lookupType(fqtn) on the registry.
LookupType ==
  /\ qpc = "start"
  /\ LET o == LookupTypeError(qin)
     IN /\ qout' = o
        /\ qpc' = IF o.ok THEN "found" ELSE "typeThrown"
  /\ UNCHANGED <<qrest, qin>>

NextResolve ==
  \/ DeriveListed
  \/ DeriveRooted
  \/ LookupType

SpecResolve == InitResolve /\ [][NextResolve]_vars

\* applyPgvIndexRules evaluated on ein up to MaxEvals times, other
\* evaluations (other candidate, other index) running in between.
InitEval ==
  /\ RIdle
  /\ VIdle
  /\ CIdle
  /\ DIdle
  /\ TIdle
  /\ YIdle
  /\ LIdle
  /\ QIdle
  /\ SIdle
  /\ PIdle
  /\ NIdle
  /\ ein \in EvalInputs
  /\ eruns = <<>>
  /\ earr = <<>>
  /\ eother = 0

\* applyPgvIndexRules(fqtn, type, candidate, index) on ein: it assigns to
\* nothing but its own `violations`.
Evaluate ==
  /\ Len(eruns) < MaxEvals
  /\ LET violations == Evaluation(ein, earr)
     IN /\ eruns' = Append(eruns, violations)
        /\ earr' = violations
  /\ UNCHANGED <<erest, ein, eother>>

\* The same function called for another tool call.
EvaluateOther ==
  /\ eother < MaxOther
  /\ \E in \in OtherInputs :
       earr' = Evaluation(in, earr)
  /\ eother' = IF eruns = <<>> THEN eother ELSE eother + 1
  /\ UNCHANGED <<erest, ein, eruns>>

NextEval ==
  \/ Evaluate
  \/ EvaluateOther

SpecEval == InitEval /\ [][NextEval]_vars

\* getDescriptors(address) with an empty cache, up to its await: the stream
\* is opened, the request written and the 5 s timer set.
GetDescriptors ==
  /\ ls.phase = "none"
  /\ pc[1] = "idle"
  /\ ls' = [NoList EXCEPT !.phase = "open", !.prom = "pending", !.timer = TRUE]
  /\ UNCHANGED srest

ListData ==
  /\ ls.phase = "open"
  /\ ls.got < MaxListData
  /\ \E r \in ListAnswers : ls' = Described(ls, ListOnData(ls, r))
  /\ UNCHANGED srest

ListError ==
  /\ ls.phase = "open"
  /\ ls' = Described(ls, ListOnError(ls))
  /\ UNCHANGED srest

ListEnd ==
  /\ ls.phase \in {"open", "errored"}
  /\ ls' = ListOnEnd(ls)
  /\ UNCHANGED srest

ListTimeout ==
  /\ ls.timer
  /\ ls' = Described(ls, ListOnTimeout(ls))
  /\ UNCHANGED srest

\* One reflection call of a client, a getDescriptors or a getTypesRoot,
\* against a server that may answer anything or nothing; the timers fire.
\* The two functions share no state (each has its own cache, stream and
\* promise), so a behaviour follows one of them.
NextSettle ==
  \/ GetDescriptors
  \/ ListData
  \/ ListError
  \/ ListEnd
  \/ ListTimeout
  \/ ls.phase = "none" /\ GetTypesRoot(1)
  \/ StreamData(1)
  \/ StreamEnd(1)
  \/ StreamError(1)
  \/ Timeout(1)
  \/ OldEvent(1)

InitSettle == Init /\ deps \in {ChainGraph, DanglingGraph}
SpecSettle ==
  InitSettle /\ [][NextSettle]_vars /\ WF_vars(Timeout(1)) /\ WF_vars(ListTimeout)

\* One getPgvRuleIndex call with an empty pgvCache.
InitPgv ==
  /\ RIdle
  /\ VIdle
  /\ CIdle
  /\ DIdle
  /\ TIdle
  /\ YIdle
  /\ LIdle
  /\ QIdle
  /\ EIdle
  /\ SIdle
  /\ NIdle
  /\ pin \in PgvInputs
  /\ ppc = "start"
  /\ pout = NoPgvIndex

\* getPgvRuleIndex up to `await this.fetchFileDescriptors(...)`.
GetPgvRuleIndex ==
  /\ ppc = "start"
  /\ ppc' = "fetching"
  /\ UNCHANGED <<prest, pin, pout>>

\* The fetch settles: it rejects, or the two passes run over the files and
\* the index is cached and returned.
PgvFetched ==
  /\ ppc = "fetching"
  /\ \/ ppc' = "rejected" /\ UNCHANGED pout
     \/ ppc' = "returned" /\ pout' = BuildIndex(pin)
  /\ UNCHANGED <<prest, pin>>

NextPgv ==
  \/ GetPgvRuleIndex
  \/ PgvFetched

SpecPgv == InitPgv /\ [][NextPgv]_vars

\* normalizeDescriptorEnums applied to one file object, repeatedly.
InitNormalize ==
  /\ RIdle
  /\ VIdle
  /\ CIdle
  /\ DIdle
  /\ TIdle
  /\ YIdle
  /\ LIdle
  /\ QIdle
  /\ EIdle
  /\ SIdle
  /\ PIdle
  /\ nfile \in FileObjs
  /\ norig = nfile
  /\ nonce = <<>>
  /\ ncount = 0

\* normalizeDescriptorEnums(fileObj): the object is changed in place.
Normalize ==
  /\ ncount < MaxNormalize
  /\ nfile' = normalizeDescriptorEnums(nfile)
  /\ nonce' = IF ncount = 0 THEN nfile' ELSE nonce
  /\ ncount' = ncount + 1
  /\ UNCHANGED <<nrest, norig>>

NextNormalize == Normalize

SpecNormalize == InitNormalize /\ [][NextNormalize]_vars

(***************************************************************************)
(* Properties                                                              *)
(***************************************************************************)
Streams(c) == {cur[c], old[c]}
Finished(c) == pc[c] \in {"done", "rejected"}

\* C1 - closure completeness: when every request of every batch of a fetch was
\* answered with the matching file and every batch ended by end-of-stream, the
\* file set fetchFileDescriptors returns holds the file of every root symbol
\* and every dependency of every file in it.
ClosureComplete ==
  \A c \in Calls :
    (Finished(c) /\ opened[c] > 0 /\ hist[c].faithful /\ cur[c].prom = "resolved")
      => /\ hist[c].roots \subseteq all[c]
         /\ \A f \in all[c] : getDeps(f) \subseteq all[c]
ClosureCompleteWitness ==
  \E c \in Calls :
    /\ pc[c] = "done" /\ hist[c].faithful
    /\ hist[c].roots = {1} /\ all[c] = FileNames /\ opened[c] = NumFiles

\* C2 - idempotent resolution: a getTypesRoot call that starts when the cache
\* holds a registry returns that very registry, the result of an earlier
\* successful call, and opens no reflection stream.
IdempotentResolution ==
  \A c \in Calls :
    (pc[c] # "idle" /\ hist[c].startCache.present)
      => /\ pc[c] = "done"
         /\ result[c] = hist[c].startCache
         /\ opened[c] = 0
         /\ \E d \in Calls \ {c} :
              pc[d] = "done" /\ ~hist[d].startCache.present /\ result[d] = result[c]
IdempotentResolutionWitness ==
  \E c, d \in Calls :
    /\ c # d /\ pc[d] = "done" /\ opened[d] > 0
    /\ pc[c] = "done" /\ hist[c].startCache.present
    /\ result[c] = result[d] /\ result[c].files # {}

\* C3 - write-once cache: once the cache holds an entry for the address, no
\* step replaces it.
CacheWriteOnce == [][rootCache.present => rootCache' = rootCache]_vars

\* C4 - partial-failure tolerance: a stream error that finds the batch pending
\* with at least one descriptor collected resolves the batch with the
\* descriptors collected so far.
PartialFailureTolerance ==
  \A c \in Calls : \A s \in Streams(c) :
    (s.mark.kind = "error" /\ s.mark.at # <<>>)
      => s.prom = "resolved" /\ s.val = s.mark.at

\* C5 - timeout keeps partial results: a timer that fires on a pending batch
\* resolves it with the descriptors collected up to then, they reach the
\* fetch's file set, and no later event of the stream changes that.
TimeoutKeepsPartial ==
  \A c \in Calls : \A s \in Streams(c) :
    s.mark.kind = "timeout"
      => /\ s.prom = "resolved"
         /\ s.val = s.mark.at
         /\ Range(s.mark.at) \subseteq all[c]
TimeoutKeepsPartialWitness ==
  \E c \in Calls :
    /\ cur[c].mark.kind = "timeout" /\ cur[c].mark.at # <<>>
    /\ cur[c].phase = "closed" /\ Len(cur[c].out) > Len(cur[c].mark.at)
    /\ old[c].mark.kind = "timeout" /\ old[c].phase = "errored"

\* C6 - a stream error that finds the batch pending with nothing collected
\* rejects the batch and the getTypesRoot call; the call yields no registry.
ZeroErrorRejects ==
  \A c \in Calls :
    (cur[c].mark.kind = "error" /\ cur[c].mark.at = <<>>)
      => cur[c].prom = "rejected" /\ pc[c] = "rejected" /\ ~result[c].present
ZeroErrorRejectsWitness ==
  \E c \in Calls :
    /\ cur[c].mark.kind = "error" /\ cur[c].mark.at = <<>>
    /\ pc[c] = "rejected" /\ opened[c] = 2

\* C7 - no silent recovery: a call that met a stream error, a timeout with
\* nothing collected or malformed descriptor bytes fails towards its caller;
\* it never returns a registry.
NoSilentRecovery ==
  \A c \in Calls :
    (cur[c].mark.kind = "error" \/ hist[c].tmo0 \/ hist[c].bad) => pc[c] # "done"
\* What does propagate: a call whose batch was failed by a stream error is
\* rejected, returns no registry and caches none, and no registry with an
\* unresolvable reference is returned or cached.
ErrorsPropagate ==
  /\ \A c \in Calls :
       /\ cur[c].mark.kind = "error"
            => pc[c] = "rejected" /\ ~result[c].present /\ ~rootCache.present
       /\ pc[c] = "done" => \A f \in result[c].files : getDeps(f) \subseteq result[c].files
  /\ rootCache.present => \A f \in rootCache.files : getDeps(f) \subseteq rootCache.files
ErrorsPropagateWitness ==
  \E c \in Calls :
    /\ cur[c].mark.kind = "error" /\ cur[c].mark.at # <<>>
    /\ pc[c] = "rejected" /\ opened[c] = 2

\* C8 - validation order and short-circuit: the violations are, for the fields
\* in declaration order, the message of the first failing rule of each field
\* (required, then minimum length, then membership), at most one per field.
StrOf(v) == IF v.t = "string" THEN v.s ELSE ""
FirstFailing(rules, v) ==
  IF ~rules.present THEN "none"
  ELSE IF rules.required /\ (v = Undefined \/ v = Null \/ v = Str("")) THEN "required"
  ELSE IF rules.case = "string" /\ \E m \in rules.minLen : Len(StrOf(v)) < m THEN "min_len"
  ELSE IF rules.case = "string" /\ rules.in # <<>> /\ StrOf(v) # ""
          /\ \A i \in 1..Len(rules.in) : rules.in[i] # StrOf(v) THEN "in"
  ELSE "none"
Message(name, rules, kind) ==
  CASE kind = "required" -> "field '" \o name \o "' is required"
    [] kind = "min_len" -> "field '" \o name \o "' must be at least "
                           \o ToString(CHOOSE m \in rules.minLen : TRUE) \o " characters"
    [] kind = "in" -> "field '" \o name \o "' must be one of: " \o Join(rules.in, ", ")
RECURSIVE Expected(_, _, _)
Expected(fields, fieldMap, candidate) ==
  IF fields = <<>> THEN <<>>
  ELSE LET f == Head(fields)
           kind == FirstFailing(fieldMap[f], candidate[f])
       IN (IF kind = "none" THEN <<>> ELSE <<Message(f, fieldMap[f], kind)>>)
          \o Expected(Tail(fields), fieldMap, candidate)
ValidationOrder ==
  venv.applied
    => /\ Len(vviol) <= Len(Fields)
       /\ vviol = Expected(Fields,
                           IF venv.index.hasType THEN venv.index.fieldMap
                           ELSE NoIndex.fieldMap,
                           vin.candidate)
ValidationOrderWitness ==
  /\ venv.applied /\ venv.index.hasType /\ Len(vviol) = 2
  /\ venv.index.fieldMap["location"] = Rules(TRUE, "string", {MaxMinLen}, <<"metric", "imperial">>)
  /\ vin.candidate["location"] = Str("")
  /\ venv.index.fieldMap["units"] = Rules(FALSE, "string", {1}, <<"metric", "imperial">>)
  /\ vin.candidate["units"] = Str("kelvin")

\* C9 - validateInputs always returns normally: it never rejects.
ValidateNeverRejects == vpc # "rejected"

\* C10 - GetWeatherRequest with location required and units in [metric,
\* imperial]: {location: "", units: "metric"} yields exactly the one violation
\* "field 'location' is required".
WeatherRules ==
  /\ venv.index.hasType
  /\ venv.index.fieldMap["location"].required
  /\ venv.index.fieldMap["location"].minLen = {}
  /\ venv.index.fieldMap["location"].in = <<>>
  /\ venv.index.fieldMap["units"] = Rules(FALSE, "string", {}, <<"metric", "imperial">>)
EmptyLocation ==
  (venv.applied /\ WeatherRules
   /\ vin.candidate = [f \in Range(Fields) |->
                         IF f = "location" THEN Str("") ELSE Str("metric")])
    => /\ vpc = "returned"
       /\ vviol = <<"field 'location' is required">>
       /\ vout = <<"field 'location' is required">>
EmptyLocationWitness ==
  /\ venv.applied /\ WeatherRules /\ vpc = "returned"
  /\ vin.toolName = "get_weather"
  /\ vin.candidate = [f \in Range(Fields) |->
                        IF f = "location" THEN Str("") ELSE Str("metric")]
  /\ vout = <<"field 'location' is required">>

\* C11 - GetWeatherRequest with location required and units in [metric,
\* imperial]: {location: "NYC", units: "kelvin"} yields one violation, for
\* units, listing "metric, imperial"; {location: "NYC", units: "metric"} yields
\* the empty list.
Candidate(location, units) ==
  [f \in Range(Fields) |-> IF f = "location" THEN Str(location) ELSE Str(units)]
UnitsAllowedValues ==
  /\ (venv.applied /\ WeatherRules /\ vin.candidate = Candidate("NYC", "kelvin"))
       => /\ vpc = "returned"
          /\ vviol = <<"field 'units' must be one of: metric, imperial">>
          /\ vout = vviol
  /\ (venv.applied /\ WeatherRules /\ vin.candidate = Candidate("NYC", "metric"))
       => /\ vpc = "returned"
          /\ vviol = <<>>
          /\ vout = <<>>
UnitsAllowedValuesWitness ==
  /\ venv.applied /\ WeatherRules /\ vpc = "returned"
  /\ vin.toolName = "get_weather"
  /\ vin.candidate = Candidate("NYC", "kelvin")
  /\ vout = <<"field 'units' must be one of: metric, imperial">>
ValidWeatherReached ==
  /\ venv.applied /\ WeatherRules /\ vpc = "returned"
  /\ vin.candidate = Candidate("NYC", "metric") /\ vout = <<>>

\* C12 - decodeAny on an envelope whose typeUrl is
\* type.googleapis.com/wrong.Type, with a root that has no wrong.Type, throws
\* and returns no value.
WrongTypeFails ==
  (cvia = "wire" /\ cany.typeUrl = <<UrlPrefix, WrongTypeName>>)
    => cpc = "thrown" /\ cret = <<>>
WrongTypeFailsWitness ==
  /\ cvia = "wire" /\ cany.typeUrl = <<UrlPrefix, WrongTypeName>>
  /\ cany.value.ok /\ cpc = "thrown"

\* C13 - decodeAny throws on every envelope whose typeUrl does not begin with
\* type.googleapis.com/.
MalformedUrlRejected ==
  (cvia = "wire" /\ (cany.typeUrl = <<>> \/ Head(cany.typeUrl) # UrlPrefix))
    => cpc = "thrown"

FieldType(fqtn, n) ==
  LET fields == CodecRoot[fqtn]
  IN fields[CHOOSE i \in 1..Len(fields) : fields[i].name = n].type
RoundsBounded ==
  \A c \in Calls :
    opened[c] > 0
      => opened[c] - 1 <= (Cardinality(all[c]) - hist[c].symFiles) + 1
LoopTerminates ==
  /\ []RoundsBounded
  /\ (pc[1] \in {"sym", "dep"}) ~> Finished(1)
LoopTerminatesWitness ==
  /\ deps = DanglingGraph /\ Finished(1) /\ hist[1].roots = {1}
  /\ all[1] = FileNames /\ hist[1].symFiles = 1 /\ opened[1] = NumFiles + 1
CycleTerminates ==
  /\ deps = CycleGraph /\ pc[1] = "done" /\ hist[1].roots = {1}
  /\ all[1] = FileNames /\ opened[1] = NumFiles

\* C16 - only names not yet fetched are requested: in no filename round does
\* the batch ask for a file whose descriptor is already in `all`.
NoRefetch ==
  \A c \in Calls : pc[c] = "dep" => cur[c].unans \cap all[c] = {}
\* The same happens against a server that answers every request with the
\* matching file alone.
RefetchFromFaithfulServer ==
  /\ deps = DiamondGraph /\ hist[1].faithful /\ hist[1].roots = {1}
  /\ pc[1] = "dep" /\ opened[1] = 3 /\ cur[1].unans \cap all[1] # {}

\* C17 - order-independent merge: against a server that answers every request
\* with the matching file, the file set a completed fetch returns is the
\* dependency closure of the roots, whatever the order in which the answers of
\* each batch arrived.
RECURSIVE Closure(_)
Closure(S) ==
  LET T == S \cup UNION {deps[f] : f \in S \cap FileNames}
  IN IF T = S THEN S ELSE Closure(T)
FirstSeenWins ==
  /\ \A i, j \in 1..Len(dout) : dout[i].name = dout[j].name => i = j
  /\ \A i \in 1..Len(dout) : dseen.first[dout[i].name] = dout[i].bytes
  /\ \A n \in DedupFiles : dseen.first[n] # "none" => n \in OutNames(dout)
  /\ \A n \in DedupFiles : dall[n] # "none" => dall[n] = dhist.first[n]
  /\ dround = 0 => dall = dhist.first
FirstSeenWinsWitness ==
  /\ dround = 0 /\ dhist.dup /\ dhist.count = NumBatches * MaxArrivals
  /\ dall = [n \in DedupFiles |-> IF n = 1 THEN "a" ELSE "none"]

\* C19 - CallTool chunking: the chunks sent carry the sequence numbers 0, 1, ...,
\* a chunk with final=true is the last one sent, every non-final chunk carries
\* a result, and a handler that returned without a transport error has sent
\* exactly one final chunk.
Chunking ==
  /\ \A i \in 1..Len(tchunks) :
       /\ tchunks[i].seq = i - 1
       /\ tchunks[i].final => i = Len(tchunks)
       /\ ~tchunks[i].final => tchunks[i].payload = "result"
  /\ (tpc = "returned" /\ ~terr)
       => Cardinality({i \in 1..Len(tchunks) : tchunks[i].final}) = 1
ChunkingWitness ==
  /\ tpc = "returned" /\ ~terr /\ treq.name = "get_weather_forecast"
  /\ Len(tchunks) = 2 /\ tchunks[1].payload = "result" /\ tchunks[2].final

\* C20 - error termination: every error chunk has final=true and is the last
\* chunk sent; an unknown tool name yields the single chunk NOT_FOUND, final.
ErrorTermination ==
  /\ \A i \in 1..Len(tchunks) :
       tchunks[i].payload = "error" => tchunks[i].final /\ i = Len(tchunks)
  /\ (tpc = "returned" /\ ~terr /\ treq.name = "nonexistent_tool")
       => tchunks = <<[seq |-> 0, final |-> TRUE, payload |-> "error",
                       code |-> "NOT_FOUND"]>>
ErrorTerminationWitness ==
  /\ tpc = "returned" /\ ~terr /\ treq.name = "nonexistent_tool"
  /\ Len(tchunks) = 1 /\ tchunks[1].code = "NOT_FOUND"
ForecastErrorReached ==
  /\ tpc = "returned" /\ treq.name = "get_weather_forecast" /\ treq.date = "past"
  /\ Len(tchunks) = 1 /\ tchunks[1].code = "INVALID_ARGUMENT" /\ tchunks[1].final
\* C21 - type_url mismatch: get_weather called with typed_arguments whose
\* type_url does not name the tool's input type answers with one final error
\* chunk INVALID_ARGUMENT and sends no result chunk.
TypeUrlMismatchRejected ==
  (tpc = "returned" /\ ~terr /\ treq.name = "get_weather"
     /\ treq.args = "wrong_type")
    => /\ Len(tchunks) = 1
       /\ tchunks[1].payload = "error"
       /\ tchunks[1].final
       /\ tchunks[1].code = "INVALID_ARGUMENT"
       /\ \A i \in 1..Len(tchunks) : tchunks[i].payload # "result"

\* C22 - every violation is surfaced: when validation fails, the tool message
\* given to the LLM and the API response each carry every violation message.
AllViolationsSurfaced ==
  /\ lllm.pc = "pushed" => \A i \in 1..Len(vout) : vout[i] \in Range(lllm.content)
  /\ lapi.pc = "ended" => lapi.validation_errors = vout
\* The API response alone does carry them all.
ResponseCarriesAll ==
  lapi.pc = "ended" => /\ lapi.validation_errors = vout
                       /\ lapi.status = 400
                       /\ lapi.error = vout[1]
ResponseCarriesAllWitness ==
  lapi.pc = "ended" /\ Len(vout) = 2

\* C23 - a failed resolution names what was asked for and what was found: the
\* Error thrown for an unknown service, an unknown method or a type name
\* absent from the registry carries the unresolved symbol and every symbol
\* that was found (listed services, methods of the service, registry types).
Unresolved ==
  CASE qpc = "typeThrown" -> qin.fqtn
    [] qpc = "thrown" /\ qout.message[1] = "Method " -> qin.grpcMethod
    [] OTHER -> qin.grpcService
FoundSymbols ==
  CASE qpc = "typeThrown" -> qin.root.types \cup qin.root.enums
    [] qpc = "thrown" /\ qout.message[1] = "Method " -> Range(qin.root.methods)
    [] qpc = "thrown" /\ qout.message[1] = "Service " -> Range(qin.services)
    [] OTHER -> IF qin.root.hasService THEN {WeatherServiceName} ELSE {}
SymbolError ==
  /\ qpc \in {"thrown", "typeThrown"}
  /\ qout.message # <<"14 UNAVAILABLE: No connection established">>
FailureNamesSymbols ==
  SymbolError => /\ Unresolved \in Range(qout.message)
                 /\ FoundSymbols \subseteq Range(qout.message)
\* What does hold: the unresolved symbol is always named, and the two
\* messages written by deriveTypesFromService list what was found.
FailureNamesUnresolved ==
  /\ SymbolError => Unresolved \in Range(qout.message)
  /\ (SymbolError /\ qout.message[1] \in {"Service ", "Method "})
       => FoundSymbols \subseteq Range(qout.message)
FailureNamesUnresolvedWitness ==
  /\ qpc = "thrown" /\ qout.message[1] = "Method "
  /\ Len(qin.root.methods) = 2

FailureNotCached ==
  /\ [][\A c \in Calls :
          /\ (pc[c] # "rejected" /\ pc'[c] = "rejected") => rootCache' = rootCache
          /\ opened'[c] > opened[c]
               => \/ pc[c] = "idle"
                  \/ cur[c].prom = "pending" /\ old'[c].prom = "resolved"
          /\ pc[c] = "rejected" => opened'[c] = opened[c] /\ pc'[c] = "rejected"]_vars
  /\ []((pc[1] = "rejected" /\ pc[2] # "idle" /\ hist[2].roots # {})
          => ~hist[2].startCache.present /\ opened[2] >= 1)
FailureNotCachedWitness ==
  /\ pc[1] = "rejected" /\ cur[1].prom = "rejected" /\ ~rootCache.present
  /\ pc[2] = "dep" /\ opened[2] = 2
\* The same after a rejection that came from resolveAll, every batch resolved.
LinkFailureRetried ==
  /\ pc[1] = "rejected" /\ cur[1].prom = "resolved" /\ ~rootCache.present
  /\ pc[2] = "sym" /\ opened[2] = 1
\* Under Spec: the rejection that comes from resolveAll, every batch resolved.
LinkFailureNotCachedReached ==
  pc[1] = "rejected" /\ cur[1].prom = "resolved" /\ ~rootCache.present

\* C26 - every reflection call settles, once: the promise of a descriptor
\* batch and the promise of a list-services call, once settled, keep their
\* state and value; a pending one is eventually settled (by a response, end
\* of stream, a stream error or its timer), so getTypesRoot finishes and
\* getDescriptors returns.
Settled(p) == p \in {"resolved", "rejected"}
ReflectionSettles ==
  /\ [][/\ Settled(cur[1].prom)
             => cur'[1].prom = cur[1].prom /\ cur'[1].val = cur[1].val
        /\ Settled(ls.prom)
             => ls'.prom = ls.prom /\ ls'.val = ls.val /\ ls'.desc = ls.desc]_vars
  /\ [](Settled(ls.prom) <=> ls.desc # "none")
  /\ (cur[1].prom = "pending") ~> Settled(cur[1].prom)
  /\ (ls.prom = "pending") ~> (Settled(ls.prom) /\ ls.desc # "none")
  /\ (pc[1] \in {"sym", "dep"}) ~> Finished(1)
\* A server that never answers: the timer settles the call.
ReflectionSettlesWitness ==
  /\ ls.prom = "rejected" /\ ls.got = 0 /\ ls.phase = "open" /\ ~ls.timer
  /\ ls.desc = "fallback"
SilentBatchSettles ==
  Finished(1) /\ hist[1].tmo0 /\ cur[1].phase = "open" /\ cur[1].out = <<>>

\* C27 - two-tier extraction precedence: the rules read from a field's options
\* are the structured decode of extension 1071 whenever the extension is there
\* and decodes, and come from the uninterpreted-option text only when it is
\* absent or fails to decode; the raw-bytes pass of getPgvRuleIndex runs only
\* when the typed pass added no rule over all the files.
FieldOf(e) ==
  pin.files[CHOOSE i \in 1..Len(pin.files) : MessageNames[i] = e.fqtn]
SeenOptions(e) ==
  IF e.pass = "typed" THEN TypedOptions(FieldOf(e), pin.keeps) ELSE FieldOf(e).options
ExtractionPrecedence ==
  ppc = "returned" =>
    /\ \A e \in pout.index :
         /\ SeenOptions(e).ext = "decodes" => e.rules.src = "ext"
         /\ e.rules.src = "text" => SeenOptions(e).ext \in {"absent", "garbled"}
         /\ e.pass = IF pout.rawRan THEN "raw" ELSE "typed"
    /\ pout.rawRan <=> pout.totalAdded = 0
    /\ pout.totalAdded =
         Cardinality({i \in 1..Len(pin.files) :
                        readPgvRulesFromFieldOptions(pin.files[i], pin.keeps) # NoRule})
\* Both an extension and an uninterpreted option on one field: the extension wins.
ExtractionPrecedenceWitness ==
  /\ ppc = "returned" /\ ~pout.rawRan /\ Len(pin.files) = 2
  /\ pin.files[1].options = [ext |-> "decodes", text |-> "string"]
  /\ pin.files[2].options = [ext |-> "garbled", text |-> "message"]
  /\ Cardinality(pout.index) = 2
\* The typed pass found nothing in any file: the raw pass supplies the rules.
RawFallbackReached ==
  /\ ppc = "returned" /\ pout.rawRan /\ ~pin.keeps
  /\ \E e \in pout.index : e.rules.src = "ext" /\ e.pass = "raw"

\* C28 - normalisation postcondition: after normalizeDescriptorEnums no field
\* of a message, at any depth, that declares no oneof group carries a
\* oneofIndex; the fields of a message that declares one keep theirs; and a
\* second application changes nothing.
RECURSIVE OneofFixed(_, _)
OneofFixed(msg, before) ==
  /\ \A i \in 1..Len(msg.field) :
       IF msg.oneofDecl <= 0 THEN msg.field[i].oneofIndex = Undefined
       ELSE msg.field[i].oneofIndex = before.field[i].oneofIndex
  /\ \A i \in 1..Len(msg.nestedType) :
       OneofFixed(msg.nestedType[i], before.nestedType[i])
NormalizePostcondition ==
  /\ ncount >= 1 => \A i \in 1..Len(nfile) : OneofFixed(nfile[i], norig[i])
  /\ ncount >= 2 => nfile = nonce
NormalizePostconditionWitness ==
  /\ ncount = 2
  /\ norig[1].oneofDecl = 1 /\ Len(norig[1].field) = 2
  /\ norig[1].field[1].oneofIndex = Num(0)
  /\ Len(norig[1].nestedType) = 1
  /\ norig[1].nestedType[1].oneofDecl = 0
  /\ Len(norig[1].nestedType[1].field) = 1
  /\ norig[1].nestedType[1].field[1].oneofIndex = Num(0)
  /\ nfile[1].nestedType[1].field[1].oneofIndex = Undefined

\* C29 - callTool after validateInputs resolves both types: the registry that
\* callTool's getTypesRoot returns holds the file of the input type and the
\* file of the output type, whatever file the output type is declared in.
\* (Symbol s is declared in file s.)
AfterValidate == pc[1] = "done" /\ pc[2] = "done" /\ hist[2].startCache.present
CallToolResolvesBoth ==
  AfterValidate => hist[2].roots \subseteq result[2].files
\* What holds: callTool gets the registry validateInputs built, so the output
\* type resolves exactly when its file is in the closure of the input type's.
CallToolReusesRoot ==
  AfterValidate
    => /\ result[2] = result[1]
       /\ result[1].files = Closure(hist[1].roots)
       /\ opened[2] = 0
CallToolReusesRootWitness ==
  /\ AfterValidate /\ deps = ChainGraph
  /\ hist[1].roots = {1} /\ hist[2].roots = {1, 2}
  /\ result[2].files = FileNames

\* C30 - every extracted rule is enforced: the key under which extraction
\* stored a field's rules is the key applyPgvIndexRules looks the field up by.
EveryRuleEnforced ==
  ppc = "returned" => \A e \in pout.index : e.key = LookupKey(FieldOf(e))
\* What holds: the rules are found for every field whose json_name is not set
\* or equals its name.
PlainNamesEnforced ==
  ppc = "returned" =>
    \A e \in pout.index :
      FieldOf(e).jsonName \in {"", FieldOf(e).name} => e.key = LookupKey(FieldOf(e))
PlainNamesEnforcedWitness ==
  /\ ppc = "returned"
  /\ \E e \in pout.index : FieldOf(e).jsonName = "location" /\ e.key = "location"

\* C37 - a field whose rules hold an allowed-values list but neither required
\* nor a minimum length: an absent, null, empty or non-string value adds no
\* violation for the field, and the membership violation is there exactly for
\* a non-empty string outside the list.
MessagesAbout(f) ==
  {"field '" \o f \o "' is required"}
    \cup {"field '" \o f \o "' must be at least " \o ToString(m) \o " characters" :
            m \in 1..MaxMinLen}
    \cup {"field '" \o f \o "' must be one of: " \o Join(in, ", ") :
            in \in {r.in : r \in RuleChoices}}
InOnly(f) ==
  /\ vpc = "returned" /\ venv.applied /\ venv.index.hasType
  /\ venv.index.fieldMap[f].present
  /\ ~venv.index.fieldMap[f].required
  /\ venv.index.fieldMap[f].case = "string"
  /\ venv.index.fieldMap[f].minLen = {}
  /\ Len(venv.index.fieldMap[f].in) > 0
InRuleSkipsEmpty ==
  \A f \in Range(Fields) :
    InOnly(f) =>
      LET value == vin.candidate[f]
          checked == value.t = "string" /\ value.s # ""
      IN /\ ~checked => Range(vviol) \cap MessagesAbout(f) = {}
         /\ checked => (Range(vviol) \cap MessagesAbout(f) # {}
                          <=> value.s \notin Range(venv.index.fieldMap[f].in))
InRuleSkipsEmptyWitness ==
  /\ InOnly("units") /\ InOnly("location")
  /\ vin.candidate["units"] = Str("")
  /\ vin.candidate["location"] = Num(5)
  /\ vviol = <<>>
\* The membership test does apply to a non-empty string.
InRuleAppliesReached ==
  /\ InOnly("units") /\ vin.candidate["units"] = Str("kelvin")
  /\ vviol = <<"field 'units' must be one of: metric, imperial">>

\* C33 - getDescriptors never rejects; a failed reflection returns the
\* fallback entry and stores it; every call made after a call for the same
\* key returned the fallback, with no clearCache in between, returns the
\* fallback and starts no reflection.
FallbackSticks ==
  \A i \in 1..Len(mcall) :
    /\ mcall[i].pc # "rejected"
    /\ (mcall[i].after /\ mcall[i].pc = "returned")
         => mcall[i].out = FallbackEntry /\ ~mcall[i].attempted
\* What holds: no call rejects, a call that finds an entry returns that entry
\* without a reflection attempt, a failed attempt stores and returns the
\* fallback, and the entry a call finds after a fallback was returned is the
\* fallback unless a call that was in flight then has stored its own result.
FallbackUnlessOverwritten ==
  /\ [](\A i \in 1..Len(mcall) :
          /\ mcall[i].pc # "rejected"
          /\ mcall[i].pc = "returned" /\ ~mcall[i].attempted
               => mcall[i].out \in {AvailableEntry, FallbackEntry}
          /\ mcall[i].after => ~mcall[i].attempted
          /\ (mcall[i].after /\ mcall[i].out # FallbackEntry)
               => \E j \in 1..(i - 1) :
                    /\ mcall[j].key = mcall[i].key /\ mcall[j].attempted
                    /\ mcall[j].out = AvailableEntry)
  /\ [][\A i \in 1..Len(mcall) :
          (mcall[i].pc = "list" /\ mcall'[i].pc # "list")
            => /\ mcall'[i].pc = "returned"
               /\ mcache'[mcall[i].key] = mcall'[i].out
               /\ mcall'[i].out \in {AvailableEntry, FallbackEntry}]_vars
\* A call made after the fallback was returned gets the entry of a call that
\* was in flight at that time.
FallbackOverwrittenReached ==
  \E i \in 1..Len(mcall) :
    mcall[i].after /\ mcall[i].pc = "returned" /\ mcall[i].out = AvailableEntry
\* The fallback is served from the cache.
FallbackServedReached ==
  \E i \in 1..Len(mcall) :
    mcall[i].after /\ mcall[i].pc = "returned" /\ mcall[i].out = FallbackEntry

\* C34 - clearCache empties the service-metadata cache and leaves rootCache
\* and pgvCache as they are; a getTypesRoot made after it with a registry in
\* rootCache returns that registry and opens no stream.
ClearKeepsRegistry ==
  /\ [][mepoch' # mepoch
          => /\ rootCache' = rootCache /\ pgvCache' = pgvCache
             /\ \A k \in PackageVersions : mcache'[k] = NoEntry]_vars
  /\ [][(pc[2] = "idle" /\ pc'[2] # "idle" /\ rootCache.present)
          => /\ pc'[2] = "done" /\ result'[2] = rootCache
             /\ opened'[2] = 0 /\ rootCache' = rootCache]_vars
  /\ []((pc[2] # "idle" /\ hist[2].startCache.present)
          => pc[2] = "done" /\ opened[2] = 0 /\ result[2] = result[1])
ClearKeepsRegistryWitness ==
  /\ mepoch = 1 /\ mcache = [k \in PackageVersions |-> NoEntry]
  /\ Len(mcall) = 1 /\ mcall[1].pc = "returned"
  /\ pgvCache
  /\ pc[1] = "done" /\ opened[1] = 2
  /\ pc[2] = "done" /\ opened[2] = 0 /\ result[2] = result[1]

\* C32 - in one sendMessage every function tool call of the assistant
\* response gets exactly one tool message carrying its id; the tool messages
\* come in tool_calls order, directly after the assistant message with the
\* tool calls, and before the follow-up assistant message.
RECURSIVE FunctionIds(_, _)
FunctionIds(calls, i) ==
  IF i > Len(calls) THEN <<>>
  ELSE IF calls[i].type = "function" THEN <<i>> \o FunctionIds(calls, i + 1)
  ELSE FunctionIds(calls, i + 1)
ToolReplyIds ==
  LET tools == SelectSeq(conversation, LAMBDA m : m.role = "tool")
  IN [k \in 1..Len(tools) |-> tools[k].id]
ToolCallsAnswered ==
  /\ \A k \in 1..Len(conversation) :
       conversation[k].role = "tool"
         => /\ k > 2
            /\ conversation[2].role = "assistant" /\ conversation[2].calls = Len(gcalls)
            /\ \A j \in 3..k : conversation[j].role = "tool"
  /\ \E n \in 0..Len(gcalls) :
       /\ ToolReplyIds = FunctionIds(SubSeq(gcalls, 1, n), 1)
       /\ gpc \in {"followup", "returned"} => n = Len(gcalls)
       /\ gpc \in {"validate", "callTool"} => n = gi - 1
ToolCallsAnsweredWitness ==
  /\ gpc = "returned" /\ Len(gcalls) = 2
  /\ gcalls[1] = [type |-> "function", json |-> "unparsable"]
  /\ gcalls[2] = [type |-> "function", json |-> "ok"]
  /\ Len(conversation) = 5
  /\ conversation[3] = ToolReply(1, "Error: ")
  /\ conversation[4] = ToolReply(2, "Server-side Validation Error: ")
  /\ conversation[5].role = "assistant"
\* The other paths: a validation failure, an exception and a success.
OtherRepliesReached ==
  /\ gpc = "returned" /\ Len(gcalls) = 2 /\ Len(conversation) >= 4
  /\ conversation[3] = ToolReply(1, "Client-side Validation Error: ")
  /\ conversation[4] \in {ToolReply(2, "results"), ToolReply(2, "Error: ")}
  /\ gres.out.kind \in {"returned", "thrown"}

\* C38 - whenever callTool returns, results is one entry with seq 0 and final
\* true; success goes with a result and no error, failure with a normalised
\* {code, message} error and no result; a rejected unary call is returned as
\* a failure, not thrown.
CallToolShape ==
  /\ gres.out.kind = "returned"
       => /\ Len(gres.out.results) = 1
          /\ LET entry == gres.out.results[1]
             IN /\ entry.seq = 0 /\ entry.final
                /\ gres.out.success <=> (entry.hasResult /\ ~entry.hasError)
                /\ ~gres.out.success
                     <=> /\ entry.hasError /\ ~entry.hasResult
                         /\ entry.error.code \in {"INVALID_ARGUMENT", "UNAVAILABLE", "UNKNOWN"}
                         /\ entry.error.message # ""
  /\ (gres.path.before = "ok" /\ gres.path.unary = "rejected")
       => gres.out.kind = "returned" /\ ~gres.out.success
CallToolShapeWitness ==
  /\ gres.path.before = "ok" /\ gres.path.unary = "rejected"
  /\ gres.path.error = [code |-> 99, message |-> ""]
  /\ gres.out.results[1].error = [code |-> "UNKNOWN", message |-> "gRPC request failed"]
\* callTool does throw, ahead of the unary call.
CallToolThrowsReached ==
  gres.path.before = "notFound" /\ gres.out.kind = "thrown"

\* C31 - the tool is called only after validateInputs returned an empty list
\* for the same tool call (the message sent is the message of the candidate
\* validated); after a non-empty list no call is made for that tool call.
ValidationGate ==
  /\ \A k \in 1..Len(glog) :
       /\ glog[k].op = "callTool"
            => /\ k > 1
               /\ glog[k - 1] = [op |-> "validateInputs", call |-> glog[k].call,
                                 threw |-> FALSE, errors |-> <<>>]
       /\ (glog[k].op = "validateInputs" /\ (glog[k].threw \/ Len(glog[k].errors) > 0))
            => \A j \in 1..Len(glog) :
                 ~(glog[j].op = "callTool" /\ glog[j].call = glog[k].call)
  /\ gpc = "callTool" => glog[Len(glog)] = [op |-> "callTool", call |-> gi,
                                            threw |-> FALSE, errors |-> <<>>]
  /\ \A i \in 1..Len(ureq) :
       /\ (ureq[i].called \/ ureq[i].pc = "call")
            => /\ ureq[i].validated = "empty"
               /\ ureq[i].called
               /\ ureq[i].message = ureq[i].candidate
       /\ ureq[i].validated \in {"errors", "threw"}
            => /\ ~ureq[i].called /\ ureq[i].pc = "done"
               /\ ureq[i].status = IF ureq[i].validated = "errors" THEN 400 ELSE 500
ValidationGateWitness ==
  \E i, j \in 1..Len(ureq) :
    /\ ureq[i].endpoint = "call-tool" /\ ureq[i].args = "zero"
    /\ ureq[i].called /\ ureq[i].status = 200
    /\ ureq[j].endpoint = "call-tool" /\ ureq[j].validated = "errors"
\* The same in the tool loop: one call refused, the next one made.
LoopGateReached ==
  /\ Len(glog) = 3
  /\ glog[1].op = "validateInputs" /\ glog[1].call = 1 /\ Len(glog[1].errors) = 2
  /\ glog[3].op = "callTool" /\ glog[3].call = 2

\* C35 - a list-tools or call-tool request makes a gRPC call only while its
\* clientId is one a successful connect returned and no disconnect has
\* removed since; any other request gets 400 'Not connected' and makes no
\* gRPC call; a connect whose reflection fails registers nothing.
RequestRules ==
  /\ clients = ulive
  /\ \A i \in 1..Len(ureq) :
       /\ ureq[i].endpoint \in {"list-tools", "call-tool"}
            => /\ ureq[i].grpc > 0 => ureq[i].admitted
               /\ ~ureq[i].admitted
                    => /\ ureq[i].pc = "done" /\ ureq[i].status = 400
                       /\ ureq[i].error = "Not connected"
                       /\ ureq[i].grpc = 0 /\ ~ureq[i].called
       /\ (ureq[i].endpoint = "connect" /\ ureq[i].status # 200) => ureq[i].rid = 0
FailedConnectRegistersNothing ==
  \A i \in 1..Len(ureq) :
    (ureq[i].pc = "reflect" /\ ureq'[i].status = 500)
      => clients' = clients /\ ureq'[i].rid = 0
ContactOnlyWhileConnected ==
  /\ []RequestRules
  /\ [][FailedConnectRegistersNothing]_vars
  /\ [][\A i \in 1..Len(ureq') :
          (/\ ureq'[i].endpoint \in {"list-tools", "call-tool"}
           /\ ureq'[i].grpc > (IF i <= Len(ureq) THEN ureq[i].grpc ELSE 0))
            => ureq'[i].clientId \in ulive]_vars
\* What holds: the clientId is looked up once, when the handler starts; the
\* gRPC calls of a request admitted then are made whatever happens to the
\* clientId later.
ContactOnlyIfAdmitted ==
  /\ []RequestRules
  /\ [][FailedConnectRegistersNothing]_vars
  /\ [][\A i \in 1..Len(ureq') :
          (/\ ureq'[i].endpoint \in {"list-tools", "call-tool"}
           /\ ureq'[i].grpc > (IF i <= Len(ureq) THEN ureq[i].grpc ELSE 0))
            => ureq'[i].admitted]_vars
ContactOnlyIfAdmittedWitness ==
  /\ Len(ureq) = 3
  /\ ureq[1].endpoint = "connect" /\ ureq[1].status = 200
  /\ ureq[2] = Answer([NoApiRequest EXCEPT !.endpoint = "disconnect",
                                           !.clientId = ureq[1].rid], 200, "")
  /\ ureq[3].endpoint = "list-tools" /\ ureq[3].clientId = ureq[1].rid
  /\ ureq[3].status = 400 /\ ureq[3].grpc = 0
\* A call-tool admitted before the disconnect makes its tool call after it.
CallAfterDisconnectReached ==
  /\ Len(ureq) = 3
  /\ ureq[2].endpoint = "call-tool" /\ ureq[2].called /\ ureq[2].grpc = 2
  /\ ureq[3].endpoint = "disconnect" /\ ureq[3].clientId = ureq[2].clientId
  /\ ureq[2].clientId \notin clients

\* C36 - the clientId a successful connect returns is not registered at
\* that time.
FreshClientId ==
  [][\A i \in 1..Len(ureq) :
       (ureq[i].pc = "reflect" /\ ureq'[i].status = 200)
         => ureq'[i].rid \notin clients]_vars
\* Two sessions hold one id, one of them disconnects, and the other's
\* request is refused.
SharedClientIdReached ==
  /\ Len(ureq) = 3
  /\ ureq[1].endpoint = "connect" /\ ureq[2].endpoint = "connect"
  /\ ureq[1].status = 200 /\ ureq[2].status = 200 /\ ureq[1].rid = ureq[2].rid
  /\ ureq[3].endpoint = "disconnect" /\ ureq[3].clientId = ureq[1].rid
  /\ clients = {}

\* C39 - every parser returns on every buffer: each loop iteration ends at
\* an offset beyond the one it started at (whatever the wire type, with
\* truncated varints and with lengths that point past the end), the bytes
\* still to be looked at, each counted as often as the parsers below can
\* visit it, decrease with every iteration and never fall below zero, so
\* the call ends after at most that many iterations.
Visits(parser) ==
  CASE parser \in {"extractPgvFromRawFile", "extractPgvFromRawMessage"} -> 5
    [] parser = "extractPgvFromRawField" -> 4
    [] parser = "readUninterpretedOptions" -> 3
    [] parser \in {"decodeUninterpretedOption",
                   "extractServerMetaFromFileDescriptorProto"} -> 2
    [] OTHER -> 1
RECURSIVE PendingBytes(_)
PendingBytes(work) ==
  IF work = <<>> THEN 0
  ELSE Visits(Head(work).parser) * Len(Head(work).buf) + PendingBytes(Tail(work))
Remaining ==
  (IF woff < Len(wbuf) /\ wpar \notin {"idle", "done"}
     THEN Visits(wpar) * (Len(wbuf) - woff) ELSE 0)
    + PendingBytes(wwork)
Running == wpar \notin {"idle", "done"}
ParsersTerminate ==
  [][Running => /\ woff < Len(wbuf)
                /\ Iterate(wpar, wbuf, woff).off > woff
                /\ wsteps' = wsteps + 1
                /\ Remaining' < Remaining
                /\ Remaining' >= 0
                /\ wpar' # "done" => woff' < Len(wbuf')]_vars
ParsersTerminateWitness ==
  /\ win = [parser |-> "extractPgvFromRawFile", buf |-> <<34, 11, 14, 128>>]
  /\ wpar = "done" /\ wsteps = 3
\* A name part of an uninterpreted option whose length points past the end.
LengthPastEndReached ==
  /\ win = [parser |-> "decodeUninterpretedOption", buf |-> <<18, 16, 14>>]
  /\ wpar = "done" /\ wsteps = 2
====
